---- MODULE Spec2Model ----
(***************************************************************************)
(* Model of the defensive helpers of the n8n fix snippets                  *)
(* (debug-helper.js, the fix guide and the quick-fix script): ensureArray, *)
(* safeGet, safeInputAll, and of the task classifiers sketched in          *)
(* project_rules.md.                                                       *)
(*                                                                         *)
(* JavaScript values are records of one fixed shape, so that any two       *)
(* values can be compared:                                                 *)
(*   t  the type tag, n the number, b the boolean, s the text as a         *)
(*   sequence of one-character strings, e the array elements, f the own    *)
(*   properties of an object as a sequence of [k, v] pairs in insertion    *)
(*   order.                                                                *)
(***************************************************************************)
EXTENDS Integers, Sequences, FiniteSets, TLC

\* ------------------------------------------------------------------ bounds
MaxStrLen == 3      \* every text over JsonChars up to this length is an input
MaxPathLen == 3     \* every path over PathChars up to this length is an input
MaxArrLen == 2      \* every array of Elements up to this length is an input
MaxTasks == 2       \* every list of TaskKinds up to this length is a shared task list
MaxBatches == 4     \* the batching loop keeps this number of batches, of later ones the parity
MaxItems == 3       \* every list of ItemKinds up to this length is an input of the script

\* ------------------------------------------------------------ JS values
Undefined == [t |-> "undefined", n |-> 0, b |-> FALSE, s |-> <<>>, e |-> <<>>, f |-> <<>>]
Null == [t |-> "null", n |-> 0, b |-> FALSE, s |-> <<>>, e |-> <<>>, f |-> <<>>]
Num(k) == [t |-> "number", n |-> k, b |-> FALSE, s |-> <<>>, e |-> <<>>, f |-> <<>>]
Bool(x) == [t |-> "boolean", n |-> 0, b |-> x, s |-> <<>>, e |-> <<>>, f |-> <<>>]
Str(cs) == [t |-> "string", n |-> 0, b |-> FALSE, s |-> cs, e |-> <<>>, f |-> <<>>]
Arr(es) == [t |-> "array", n |-> 0, b |-> FALSE, s |-> <<>>, e |-> es, f |-> <<>>]
Obj(ps) == [t |-> "object", n |-> 0, b |-> FALSE, s |-> <<>>, e |-> <<>>, f |-> ps]
Prop(k, v) == [k |-> k, v |-> v]

\* Array.isArray(value)
IsArray(v) == v.t = "array"
\* value === null || value === undefined
IsNullish(v) == v.t \in {"null", "undefined"}

\* Outcome of a call: a returned value or a raised exception.
Return(v) == [thrown |-> FALSE, val |-> v]
Throw == [thrown |-> TRUE, val |-> Undefined]

\* ------------------------------------------------------------ JSON.parse
\* The JSON grammar (ECMA-404) over texts whose numbers are integer
\* literals and whose string escapes are \" \\ \/ .
Digits == {"0", "1", "2", "3", "4", "5", "6", "7", "8", "9"}
DigitVal(c) ==
  CASE c = "0" -> 0 [] c = "1" -> 1 [] c = "2" -> 2 [] c = "3" -> 3 [] c = "4" -> 4
    [] c = "5" -> 5 [] c = "6" -> 6 [] c = "7" -> 7 [] c = "8" -> 8 [] c = "9" -> 9
IsWs(c) == c \in {" ", "\t", "\n", "\r"}

PFail == [ok |-> FALSE, val |-> Undefined, pos |-> 0]
POk(v, p) == [ok |-> TRUE, val |-> v, pos |-> p]

RECURSIVE SkipWs(_, _)
SkipWs(s, i) == IF i <= Len(s) /\ IsWs(s[i]) THEN SkipWs(s, i + 1) ELSE i

\* s[i..] starts with the literal w
StartsWith(s, i, w) ==
  /\ i + Len(w) - 1 <= Len(s)
  /\ \A k \in 1..Len(w) : s[i + k - 1] = w[k]

\* digits of a number from position i, most significant first
RECURSIVE ParseDigits(_, _, _)
ParseDigits(s, i, acc) ==
  IF i <= Len(s) /\ s[i] \in Digits
    THEN ParseDigits(s, i + 1, acc * 10 + DigitVal(s[i]))
    ELSE [val |-> acc, pos |-> i]

\* int = "0" | digit1-9 digit* ; a leading zero ends the number
ParseInt(s, i) ==
  IF i > Len(s) \/ s[i] \notin Digits THEN PFail
  ELSE IF s[i] = "0" THEN POk(Num(0), i + 1)
  ELSE LET d == ParseDigits(s, i, 0) IN POk(Num(d.val), d.pos)

ParseNumber(s, i) ==
  IF s[i] = "-"
    THEN LET r == ParseInt(s, i + 1) IN
         IF r.ok THEN POk(Num(0 - r.val.n), r.pos) ELSE PFail
    ELSE ParseInt(s, i)

\* characters of a string from position i (after the opening quote)
RECURSIVE ParseChars(_, _, _)
ParseChars(s, i, acc) ==
  IF i > Len(s) THEN PFail
  ELSE IF s[i] = "\"" THEN POk(Str(acc), i + 1)
  ELSE IF s[i] \in {"\t", "\n", "\r"} THEN PFail
  ELSE IF s[i] = "\\"
    THEN IF i + 1 <= Len(s) /\ s[i + 1] \in {"\"", "\\", "/"}
           THEN ParseChars(s, i + 2, Append(acc, s[i + 1]))
           ELSE PFail
  ELSE ParseChars(s, i + 1, Append(acc, s[i]))

\* obj[k] = v on an object's property list: a duplicate key keeps its place
\* and takes the last value
RECURSIVE SetProp(_, _, _)
SetProp(ps, k, v) ==
  IF ps = <<>> THEN <<Prop(k, v)>>
  ELSE IF Head(ps).k = k THEN <<Prop(k, v)>> \o Tail(ps)
  ELSE <<Head(ps)>> \o SetProp(Tail(ps), k, v)

RECURSIVE ParseValue(_, _)
RECURSIVE ParseElements(_, _, _)
RECURSIVE ParseMembers(_, _, _)

\* elements of an array: s[i] starts an element
ParseElements(s, i, acc) ==
  LET r == ParseValue(s, i) IN
  IF ~r.ok THEN PFail
  ELSE LET j == SkipWs(s, r.pos) IN
       IF j > Len(s) THEN PFail
       ELSE IF s[j] = "," THEN ParseElements(s, j + 1, Append(acc, r.val))
       ELSE IF s[j] = "]" THEN POk(Arr(Append(acc, r.val)), j + 1)
       ELSE PFail

\* members of an object: a string key, a colon, a value
ParseMembers(s, i, acc) ==
  LET j == SkipWs(s, i) IN
  IF j > Len(s) \/ s[j] # "\"" THEN PFail
  ELSE LET key == ParseChars(s, j + 1, <<>>) IN
       IF ~key.ok THEN PFail
       ELSE LET c == SkipWs(s, key.pos) IN
            IF c > Len(s) \/ s[c] # ":" THEN PFail
            ELSE LET r == ParseValue(s, c + 1) IN
                 IF ~r.ok THEN PFail
                 ELSE LET m == SkipWs(s, r.pos)
                          ps == SetProp(acc, key.val.s, r.val) IN
                      IF m > Len(s) THEN PFail
                      ELSE IF s[m] = "," THEN ParseMembers(s, m + 1, ps)
                      ELSE IF s[m] = "}" THEN POk(Obj(ps), m + 1)
                      ELSE PFail

ParseValue(s, i) ==
  LET j == SkipWs(s, i) IN
  IF j > Len(s) THEN PFail
  ELSE IF s[j] = "[" THEN
         LET k == SkipWs(s, j + 1) IN
         IF k <= Len(s) /\ s[k] = "]" THEN POk(Arr(<<>>), k + 1)
         ELSE ParseElements(s, j + 1, <<>>)
  ELSE IF s[j] = "{" THEN
         LET k == SkipWs(s, j + 1) IN
         IF k <= Len(s) /\ s[k] = "}" THEN POk(Obj(<<>>), k + 1)
         ELSE ParseMembers(s, j + 1, <<>>)
  ELSE IF s[j] = "\"" THEN ParseChars(s, j + 1, <<>>)
  ELSE IF s[j] = "-" \/ s[j] \in Digits THEN ParseNumber(s, j)
  ELSE IF StartsWith(s, j, <<"t", "r", "u", "e">>) THEN POk(Bool(TRUE), j + 4)
  ELSE IF StartsWith(s, j, <<"f", "a", "l", "s", "e">>) THEN POk(Bool(FALSE), j + 5)
  ELSE IF StartsWith(s, j, <<"n", "u", "l", "l">>) THEN POk(Null, j + 4)
  ELSE PFail

\* JSON.parse(text): one value, surrounded by optional white space; a
\* SyntaxError otherwise
JSONParse(s) ==
  LET r == ParseValue(s, 1) IN
  IF r.ok /\ SkipWs(s, r.pos) > Len(s) THEN Return(r.val) ELSE Throw

\* ------------------------------------------------------ property access
\* decimal text of a natural number
RECURSIVE NatToStr(_)
NatToStr(k) ==
  LET d == CHOOSE c \in Digits : DigitVal(c) = k % 10 IN
  IF k < 10 THEN <<d>> ELSE NatToStr(k \div 10) \o <<d>>

\* String(v), and Array.prototype.join(',') over the elements from i on
\* (a null or undefined element joins as the empty text)
RECURSIVE ToText(_)
RECURSIVE Join(_, _)
ToText(v) ==
  CASE v.t = "string" -> v.s
    [] v.t = "number" -> IF v.n < 0 THEN <<"-">> \o NatToStr(0 - v.n) ELSE NatToStr(v.n)
    [] v.t = "boolean" -> IF v.b THEN <<"t", "r", "u", "e">> ELSE <<"f", "a", "l", "s", "e">>
    [] v.t = "null" -> <<"n", "u", "l", "l">>
    [] v.t = "undefined" -> <<"u", "n", "d", "e", "f", "i", "n", "e", "d">>
    [] v.t = "array" -> Join(v.e, 1)
    [] v.t = "object" -> <<"[", "o", "b", "j", "e", "c", "t", " ", "O", "b", "j", "e", "c", "t", "]">>

Join(es, i) ==
  IF i > Len(es) THEN <<>>
  ELSE (IF IsNullish(es[i]) THEN <<>> ELSE ToText(es[i]))
       \o (IF i < Len(es) THEN <<",">> ELSE <<>>)
       \o Join(es, i + 1)

\* ToPropertyKey(key): the text a value names a property with
ToPropertyKey(key) == ToText(key)

\* k is a canonical array index ("0", "1", "10", never "01")
IsIndex(k) ==
  /\ k # <<>>
  /\ \A i \in 1..Len(k) : k[i] \in Digits
  /\ (Len(k) > 1 => k[1] # "0")

IndexOf(k) == ParseDigits(k, 1, 0).val

K_length == <<"l", "e", "n", "g", "t", "h">>

\* own property k of an object's property list, undefined when missing
RECURSIVE Lookup(_, _)
Lookup(ps, k) ==
  IF ps = <<>> THEN Undefined
  ELSE IF Head(ps).k = k THEN Head(ps).v
  ELSE Lookup(Tail(ps), k)

\* v[k] for a v that is neither null nor undefined: own properties, and the
\* length and the indexed elements of arrays and strings
Get(v, k) ==
  CASE v.t = "object" -> Lookup(v.f, k)
    [] v.t = "array" ->
         IF k = K_length THEN Num(Len(v.e))
         ELSE IF IsIndex(k) /\ IndexOf(k) < Len(v.e) THEN v.e[IndexOf(k) + 1]
         ELSE Undefined
    [] v.t = "string" ->
         IF k = K_length THEN Num(Len(v.s))
         ELSE IF IsIndex(k) /\ IndexOf(k) < Len(v.s) THEN Str(<<v.s[IndexOf(k) + 1]>>)
         ELSE Undefined
    [] OTHER -> Undefined

\* v?.[key]
GetOpt(v, key) == IF IsNullish(v) THEN Undefined ELSE Get(v, ToPropertyKey(key))

\* text.split('.'): the segments between the dots, as string values
RECURSIVE SplitFrom(_, _, _, _)
SplitFrom(s, i, cur, acc) ==
  IF i > Len(s) THEN Append(acc, Str(cur))
  ELSE IF s[i] = "." THEN SplitFrom(s, i + 1, <<>>, Append(acc, Str(cur)))
  ELSE SplitFrom(s, i + 1, Append(cur, s[i]), acc)

Split(s) == SplitFrom(s, 1, <<>>, <<>>)

\* path.split('.'): a TypeError unless path is a string
PathSplit(path) == IF path.t = "string" THEN Return(Arr(Split(path.s))) ELSE Throw

\* a parameter's default value applies when the argument is undefined
DefaultTo(arg, d) == IF arg.t = "undefined" THEN d ELSE arg

\* ------------------------------------------------------ JS operators
\* Boolean(v)
Truthy(v) ==
  CASE v.t \in {"undefined", "null"} -> FALSE
    [] v.t = "boolean" -> v.b
    [] v.t = "number" -> v.n # 0
    [] v.t = "string" -> v.s # <<>>
    [] OTHER -> TRUE

\* a || b
OrElse(a, b) == IF Truthy(a) THEN a ELSE b

\* a === b for a string or boolean literal b
StrictEquals(a, b) == a.t = b.t /\ a.s = b.s /\ a.b = b.b /\ a.t \in {"string", "boolean"}

\* a number, or NaN
NaN == [nan |-> TRUE, n |-> 0]
Number(k) == [nan |-> FALSE, n |-> k]

\* StringToNumber: white space trimmed, the empty text is 0, a signed
\* decimal integer is its value, anything else is NaN
RECURSIVE TrimEnd(_)
TrimEnd(s) == IF s # <<>> /\ IsWs(s[Len(s)]) THEN TrimEnd(SubSeq(s, 1, Len(s) - 1)) ELSE s

StringToNumber(s) ==
  LET t == TrimEnd(SubSeq(s, SkipWs(s, 1), Len(s)))
      signed == t # <<>> /\ t[1] \in {"-", "+"}
      ds == IF signed THEN Tail(t) ELSE t IN
  IF t = <<>> THEN Number(0)
  ELSE IF ds = <<>> \/ \E i \in 1..Len(ds) : ds[i] \notin Digits THEN NaN
  ELSE IF signed /\ t[1] = "-" THEN Number(0 - ParseDigits(ds, 1, 0).val)
  ELSE Number(ParseDigits(ds, 1, 0).val)

\* ToNumber(v); an array or object converts through its text
ToNumber(v) ==
  CASE v.t = "undefined" -> NaN
    [] v.t = "null" -> Number(0)
    [] v.t = "boolean" -> Number(IF v.b THEN 1 ELSE 0)
    [] v.t = "number" -> Number(v.n)
    [] OTHER -> StringToNumber(ToText(v))

\* the comparison written >= in place of >
GreaterThan_orEqual(v, k) == LET x == ToNumber(v) IN ~x.nan /\ x.n >= k

\* v > k for a number literal k: false when v converts to NaN
GreaterThan(v, k) == LET x == ToNumber(v) IN ~x.nan /\ x.n > k

\* text.startsWith(w) in place of text.includes(w)
StringIncludes_prefixOnly(s, w) == StartsWith(s, 1, w)

\* text.includes(w)
StringIncludes(s, w) == \E i \in 1..(Len(s) - Len(w) + 1) : StartsWith(s, i, w)

\* v?.includes(w): undefined for a null or undefined v, the substring test
\* of a string, the membership test of an array, and a TypeError for any
\* other v, which has no includes method
IncludesOpt(v, w) ==
  IF IsNullish(v) THEN Return(Undefined)
  ELSE IF v.t = "string" THEN Return(Bool(StringIncludes(v.s, w.s)))
  ELSE IF v.t = "array" THEN Return(Bool(\E i \in 1..Len(v.e) : v.e[i] = w))
  ELSE Throw

\* Object.values(o).filter(Boolean).length
RECURSIVE CountTruthy(_)
CountTruthy(ps) ==
  IF ps = <<>> THEN 0
  ELSE (IF Truthy(Head(ps).v) THEN 1 ELSE 0) + CountTruthy(Tail(ps))

\* ------------------------------------------------------------ ensureArray
\* ensureArray without its try/catch: the SyntaxError of JSON.parse propagates
ensureArray_noCatch(value) ==
  IF IsArray(value) THEN Return(value)
  ELSE IF IsNullish(value) THEN Return(Arr(<<>>))
  ELSE IF value.t = "string" THEN
    LET parsed == JSONParse(value.s) IN
    IF parsed.thrown THEN Throw
    ELSE IF IsArray(parsed.val) THEN Return(parsed.val)
    ELSE Return(Arr(<<parsed.val>>))
  ELSE Return(Arr(<<value>>))

\* ensureArray without the Array.isArray test: an array is wrapped like any
\* other object
ensureArray_noArrayTest(value) ==
  IF IsNullish(value) THEN Return(Arr(<<>>))
  ELSE IF value.t = "string" THEN
    LET parsed == JSONParse(value.s) IN
    IF parsed.thrown THEN Return(Arr(<<value>>))
    ELSE IF IsArray(parsed.val) THEN Return(parsed.val)
    ELSE Return(Arr(<<parsed.val>>))
  ELSE Return(Arr(<<value>>))

\* ensureArray testing !value in place of value === null || value === undefined
ensureArray_falsyIsAbsent(value) ==
  IF IsArray(value) THEN Return(value)
  ELSE IF ~Truthy(value) THEN Return(Arr(<<>>))
  ELSE IF value.t = "string" THEN
    LET parsed == JSONParse(value.s) IN
    IF parsed.thrown THEN Return(Arr(<<value>>))
    ELSE IF IsArray(parsed.val) THEN Return(parsed.val)
    ELSE Return(Arr(<<parsed.val>>))
  ELSE Return(Arr(<<value>>))

\* ensureArray testing value === null only
ensureArray_nullOnly(value) ==
  IF IsArray(value) THEN Return(value)
  ELSE IF value.t = "null" THEN Return(Arr(<<>>))
  ELSE IF value.t = "string" THEN
    LET parsed == JSONParse(value.s) IN
    IF parsed.thrown THEN Return(Arr(<<value>>))
    ELSE IF IsArray(parsed.val) THEN Return(parsed.val)
    ELSE Return(Arr(<<parsed.val>>))
  ELSE Return(Arr(<<value>>))

\* ensureArray ending in Array.from(value), which is empty for a number, a
\* boolean and a plain object
ensureArray_arrayFrom(value) ==
  IF IsArray(value) THEN Return(value)
  ELSE IF IsNullish(value) THEN Return(Arr(<<>>))
  ELSE IF value.t = "string" THEN
    LET parsed == JSONParse(value.s) IN
    IF parsed.thrown THEN Return(Arr(<<value>>))
    ELSE IF IsArray(parsed.val) THEN Return(parsed.val)
    ELSE Return(Arr(<<parsed.val>>))
  ELSE Return(Arr(<<>>))

\* src/debug-helper.js
ensureArray(value) ==
  IF IsArray(value) THEN Return(value)
  ELSE IF IsNullish(value) THEN Return(Arr(<<>>))
  ELSE IF value.t = "string" THEN
    LET parsed == JSONParse(value.s) IN
    IF parsed.thrown THEN Return(Arr(<<value>>))
    ELSE IF IsArray(parsed.val) THEN Return(parsed.val)
    ELSE Return(Arr(<<parsed.val>>))
  ELSE Return(Arr(<<value>>))

\* the copy of the fix guide
ensureArray_part000(value) ==
  IF IsArray(value) THEN Return(value)
  ELSE IF IsNullish(value) THEN Return(Arr(<<>>))
  ELSE IF value.t = "string" THEN
    LET parsed == JSONParse(value.s) IN
    IF parsed.thrown THEN Return(Arr(<<value>>))
    ELSE IF IsArray(parsed.val) THEN Return(parsed.val)
    ELSE Return(Arr(<<parsed.val>>))
  ELSE Return(Arr(<<value>>))

\* a copy that returns the parsed value as it is, array or not
ensureArray_part001_unwrapped(value) ==
  IF IsArray(value) THEN Return(value)
  ELSE IF IsNullish(value) THEN Return(Arr(<<>>))
  ELSE IF value.t = "string" THEN
    LET parsed == JSONParse(value.s) IN
    IF parsed.thrown THEN Return(Arr(<<value>>))
    ELSE Return(parsed.val)
  ELSE Return(Arr(<<value>>))

\* the copy of the quick-fix script
ensureArray_part001(value) ==
  IF IsArray(value) THEN Return(value)
  ELSE IF IsNullish(value) THEN Return(Arr(<<>>))
  ELSE IF value.t = "string" THEN
    LET parsed == JSONParse(value.s) IN
    IF parsed.thrown THEN Return(Arr(<<value>>))
    ELSE IF IsArray(parsed.val) THEN Return(parsed.val)
    ELSE Return(Arr(<<parsed.val>>))
  ELSE Return(Arr(<<value>>))

\* ---------------------------------------------------------------- safeGet
\* the loop testing result === undefined only: a null segment is walked through
RECURSIVE Walk_undefinedOnly(_, _, _)
Walk_undefinedOnly(result, keys, i) ==
  IF i > Len(keys) THEN [absent |-> FALSE, val |-> result, visited |-> Len(keys)]
  ELSE LET r == GetOpt(result, keys[i]) IN
       IF r.t = "undefined" THEN [absent |-> TRUE, val |-> r, visited |-> i]
       ELSE Walk_undefinedOnly(r, keys, i + 1)

\* The loop of safeGet from segment i on: result = result?.[key], and the
\* walk stops at the first segment that resolves to null or undefined.
\* visited counts the segments looked up.
RECURSIVE Walk(_, _, _)
Walk(result, keys, i) ==
  IF i > Len(keys) THEN [absent |-> FALSE, val |-> result, visited |-> Len(keys)]
  ELSE LET r == GetOpt(result, keys[i]) IN
       IF IsNullish(r) THEN [absent |-> TRUE, val |-> r, visited |-> i]
       ELSE Walk(r, keys, i + 1)

\* What a call of safeGet did: the value returned (or thrown), the number of
\* segments it looked up and whether its catch block ran.
Got(v, n) == [thrown |-> FALSE, val |-> v, visited |-> n, caught |-> FALSE]
Caught(v) == [thrown |-> FALSE, val |-> v, visited |-> 0, caught |-> TRUE]

\* safeGet of the fix guide without its try/catch
safeGet_part000_noCatch(obj, path, defaultArg) ==
  LET defaultValue == DefaultTo(defaultArg, Arr(<<>>))
      keys == PathSplit(path) IN
  IF keys.thrown THEN [thrown |-> TRUE, val |-> Undefined, visited |-> 0, caught |-> FALSE]
  ELSE LET w == Walk(obj, keys.val.e, 1) IN
       IF w.absent THEN Got(defaultValue, w.visited)
       ELSE Got(ensureArray_part000(w.val).val, w.visited)

\* safeGet of the fix guide returning the value found as it is
safeGet_part000_raw(obj, path, defaultArg) ==
  LET defaultValue == DefaultTo(defaultArg, Arr(<<>>))
      keys == PathSplit(path) IN
  IF keys.thrown THEN Caught(defaultValue)
  ELSE LET w == Walk(obj, keys.val.e, 1) IN
       IF w.absent THEN Got(defaultValue, w.visited)
       ELSE Got(w.val, w.visited)

\* the fix guide: defaultValue = [], the value found is normalised
safeGet_part000(obj, path, defaultArg) ==
  LET defaultValue == DefaultTo(defaultArg, Arr(<<>>))
      keys == PathSplit(path) IN
  IF keys.thrown THEN Caught(defaultValue)
  ELSE LET w == Walk(obj, keys.val.e, 1) IN
       IF w.absent THEN Got(defaultValue, w.visited)
       ELSE LET r == ensureArray_part000(w.val) IN
            IF r.thrown THEN Caught(defaultValue) ELSE Got(r.val, w.visited)

\* the quick-fix script: defaultValue = null, a path may be a segment list,
\* the value found is returned as it is
safeGet_part001(obj, path, defaultArg) ==
  LET defaultValue == DefaultTo(defaultArg, Null)
      keys == IF IsArray(path) THEN Return(path) ELSE PathSplit(path) IN
  IF keys.thrown THEN Caught(defaultValue)
  ELSE LET w == Walk(obj, keys.val.e, 1) IN
       IF w.absent THEN Got(defaultValue, w.visited)
       ELSE Got(w.val, w.visited)

\* ----------------------------------------------------------- safeInputAll
\* safeInputAll without its try/catch
safeInputAll_part000_noCatch(upstream) ==
  IF upstream.thrown THEN Throw
  ELSE IF IsArray(upstream.val) THEN Return(upstream.val)
  ELSE Return(Arr(<<upstream.val>>))

\* upstream is the outcome of $input.all(): a value or an exception
safeInputAll_part000(upstream) ==
  IF upstream.thrown THEN Return(Arr(<<>>))
  ELSE IF IsArray(upstream.val) THEN Return(upstream.val)
  ELSE Return(Arr(<<upstream.val>>))

safeInputAll_part001(upstream) ==
  IF upstream.thrown THEN Return(Arr(<<>>))
  ELSE IF IsArray(upstream.val) THEN Return(upstream.val)
  ELSE Return(Arr(<<upstream.val>>))

\* -------------------------------------------------- safePropertyIteration
\* debug-helper.js lines 58-65: a missing propertyValues or a falsy property
\* gives [], anything else is normalised
safePropertyIteration(propertyValues, itemName) ==
  IF ~Truthy(propertyValues) THEN Return(Arr(<<>>))
  ELSE LET v == Get(propertyValues, ToPropertyKey(itemName)) IN
       IF ~Truthy(v) THEN Return(Arr(<<>>)) ELSE ensureArray(v)

\* debug-helper.js lines 74-75: ensureArray(propertyValues[itemName]);
\* reading a property of null or undefined is a TypeError
ensureArrayOfProperty(propertyValues, itemName) ==
  IF IsNullish(propertyValues) THEN Throw
  ELSE ensureArray(Get(propertyValues, ToPropertyKey(itemName)))

\* ------------------------------------------------- names and literals
K_sourceCount == <<"s", "o", "u", "r", "c", "e", "C", "o", "u", "n", "t">>
K_uncertaintyMarkers == <<"u", "n", "c", "e", "r", "t", "a", "i", "n", "t", "y", "M", "a", "r", "k", "e", "r", "s">>
K_stakes == <<"s", "t", "a", "k", "e", "s">>
K_analysisType == <<"a", "n", "a", "l", "y", "s", "i", "s", "T", "y", "p", "e">>
K_contextRequirement == <<"c", "o", "n", "t", "e", "x", "t", "R", "e", "q", "u", "i", "r", "e", "m", "e", "n", "t">>
K_outputType == <<"o", "u", "t", "p", "u", "t", "T", "y", "p", "e">>
K_sources == <<"s", "o", "u", "r", "c", "e", "s">>
K_content == <<"c", "o", "n", "t", "e", "n", "t">>
K_uncertainties == <<"u", "n", "c", "e", "r", "t", "a", "i", "n", "t", "i", "e", "s">>
K_requiresComparison == <<"r", "e", "q", "u", "i", "r", "e", "s", "C", "o", "m", "p", "a", "r", "i", "s", "o", "n">>
K_priority == <<"p", "r", "i", "o", "r", "i", "t", "y">>
K_reasoning == <<"r", "e", "a", "s", "o", "n", "i", "n", "g">>
K_requiresSynthesis == <<"r", "e", "q", "u", "i", "r", "e", "s", "S", "y", "n", "t", "h", "e", "s", "i", "s">>
K_context == <<"c", "o", "n", "t", "e", "x", "t">>
K_requiresNuance == <<"r", "e", "q", "u", "i", "r", "e", "s", "N", "u", "a", "n", "c", "e">>
K_chapter == <<"c", "h", "a", "p", "t", "e", "r">>
K_tier == <<"t", "i", "e", "r">>
K_confidence == <<"c", "o", "n", "f", "i", "d", "e", "n", "c", "e">>
K_score == <<"s", "c", "o", "r", "e">>
K_indicators == <<"i", "n", "d", "i", "c", "a", "t", "o", "r", "s">>
K_routing == <<"r", "o", "u", "t", "i", "n", "g">>
K_llmModel == <<"l", "l", "m", "M", "o", "d", "e", "l">>
K_preprocessing == <<"p", "r", "e", "p", "r", "o", "c", "e", "s", "s", "i", "n", "g">>
K_caching == <<"c", "a", "c", "h", "i", "n", "g">>
K_crossReferenceRequired == <<"c", "r", "o", "s", "s", "R", "e", "f", "e", "r", "e", "n", "c", "e", "R", "e", "q", "u", "i", "r", "e", "d">>
K_ambiguityPresent == <<"a", "m", "b", "i", "g", "u", "i", "t", "y", "P", "r", "e", "s", "e", "n", "t">>
K_qualityCritical == <<"q", "u", "a", "l", "i", "t", "y", "C", "r", "i", "t", "i", "c", "a", "l">>
K_reasoningDepth == <<"r", "e", "a", "s", "o", "n", "i", "n", "g", "D", "e", "p", "t", "h">>
K_contextDependency == <<"c", "o", "n", "t", "e", "x", "t", "D", "e", "p", "e", "n", "d", "e", "n", "c", "y">>
K_synthesisRequired == <<"s", "y", "n", "t", "h", "e", "s", "i", "s", "R", "e", "q", "u", "i", "r", "e", "d">>
K_multiDocument == <<"m", "u", "l", "t", "i", "D", "o", "c", "u", "m", "e", "n", "t">>
K_crossReference == <<"c", "r", "o", "s", "s", "R", "e", "f", "e", "r", "e", "n", "c", "e">>
K_complexReasoning == <<"c", "o", "m", "p", "l", "e", "x", "R", "e", "a", "s", "o", "n", "i", "n", "g">>
K_synthesis == <<"s", "y", "n", "t", "h", "e", "s", "i", "s">>
K_contextHeavy == <<"c", "o", "n", "t", "e", "x", "t", "H", "e", "a", "v", "y">>
K_nuancedInterpretation == <<"n", "u", "a", "n", "c", "e", "d", "I", "n", "t", "e", "r", "p", "r", "e", "t", "a", "t", "i", "o", "n">>

S_high == Str(<<"h", "i", "g", "h">>)
S_critical == Str(<<"c", "r", "i", "t", "i", "c", "a", "l">>)
S_complex == Str(<<"c", "o", "m", "p", "l", "e", "x">>)
S_advanced == Str(<<"a", "d", "v", "a", "n", "c", "e", "d">>)
S_extensive == Str(<<"e", "x", "t", "e", "n", "s", "i", "v", "e">>)
S_strategic == Str(<<"s", "t", "r", "a", "t", "e", "g", "i", "c">>)
S_unclear == Str(<<"u", "n", "c", "l", "e", "a", "r">>)
S_premium == Str(<<"p", "r", "e", "m", "i", "u", "m">>)
S_standard == Str(<<"s", "t", "a", "n", "d", "a", "r", "d">>)
S_medium == Str(<<"m", "e", "d", "i", "u", "m">>)
S_low == Str(<<"l", "o", "w">>)
S_premium_model == Str(<<"p", "r", "e", "m", "i", "u", "m", "_", "m", "o", "d", "e", "l">>)
S_standard_model == Str(<<"s", "t", "a", "n", "d", "a", "r", "d", "_", "m", "o", "d", "e", "l">>)
S_essential_only == Str(<<"e", "s", "s", "e", "n", "t", "i", "a", "l", "_", "o", "n", "l", "y">>)
S_aggressive == Str(<<"a", "g", "g", "r", "e", "s", "s", "i", "v", "e">>)
S_normal == Str(<<"n", "o", "r", "m", "a", "l">>)

\* ------------------------------------------------------ the classifiers
\* the tier with complexityScore > 3
classifyTask_tier_strict(complexityScore) == IF complexityScore > 3 THEN S_premium ELSE S_standard

\* classifyTask: complexityScore >= 3 ? 'premium' : 'standard'
classifyTask_tier(complexityScore) == IF complexityScore >= 3 THEN S_premium ELSE S_standard

\* the confidence with 'high' from 4 indicators on
classifyTask_confidence_highFrom4(complexityScore) ==
  IF complexityScore >= 4 THEN S_high
  ELSE IF complexityScore >= 2 THEN S_medium
  ELSE S_low

\* classifyTask: complexityScore >= 5 ? 'high' : complexityScore >= 2 ? 'medium' : 'low'
classifyTask_confidence(complexityScore) ==
  IF complexityScore >= 5 THEN S_high
  ELSE IF complexityScore >= 2 THEN S_medium
  ELSE S_low

\* classifyTaskComplexity: complexity >= 3 ? 'premium' : 'standard'
classifyTaskComplexity_tier(complexity) == IF complexity >= 3 THEN S_premium ELSE S_standard

\* classifyTaskComplexity: the routing chosen by the same threshold
classifyTaskComplexity_routing(complexity) ==
  Obj(<<
    Prop(K_llmModel, IF complexity >= 3 THEN S_premium_model ELSE S_standard_model),
    Prop(K_preprocessing, IF complexity >= 3 THEN S_essential_only ELSE S_standard),
    Prop(K_caching, IF complexity >= 3 THEN S_aggressive ELSE S_normal) >>)

\* project_rules.md, Automatic Task Router Configuration.  Reading a field of
\* a null or undefined taskData is a TypeError.
classifyTask(taskData) ==
  IF IsNullish(taskData) THEN Throw
  ELSE
    LET complexityIndicators == Obj(<<
          Prop(K_crossReferenceRequired, Bool(GreaterThan(Get(taskData, K_sourceCount), 1))),
          Prop(K_ambiguityPresent,
               Bool(GreaterThan(GetOpt(Get(taskData, K_uncertaintyMarkers), Str(K_length)), 0))),
          Prop(K_qualityCritical, Bool(StrictEquals(Get(taskData, K_stakes), S_high))),
          Prop(K_reasoningDepth, Bool(StrictEquals(Get(taskData, K_analysisType), S_complex))),
          Prop(K_contextDependency, Bool(StrictEquals(Get(taskData, K_contextRequirement), S_extensive))),
          Prop(K_synthesisRequired, Bool(StrictEquals(Get(taskData, K_outputType), S_strategic))) >>)
        complexityScore == CountTruthy(complexityIndicators.f) IN
    Return(Obj(<<
      Prop(K_tier, classifyTask_tier(complexityScore)),
      Prop(K_reasoning, complexityIndicators),
      Prop(K_confidence, classifyTask_confidence(complexityScore)) >>))

\* project_rules.md, Task Router Node.  task.content?.includes('unclear')
\* raises when content has no includes method.
classifyTaskComplexity(task) ==
  IF IsNullish(task) THEN Throw
  ELSE
    LET unclear == IncludesOpt(Get(task, K_content), S_unclear) IN
    IF unclear.thrown THEN Throw
    ELSE
      LET indicators == Obj(<<
            Prop(K_multiDocument,
                 Bool(GreaterThan(OrElse(GetOpt(Get(task, K_sources), Str(K_length)), Num(1)), 1))),
            Prop(K_ambiguityPresent,
                 OrElse(unclear.val,
                        Bool(GreaterThan(GetOpt(Get(task, K_uncertainties), Str(K_length)), 0)))),
            Prop(K_crossReference, Bool(StrictEquals(Get(task, K_requiresComparison), Bool(TRUE)))),
            Prop(K_qualityCritical,
                 Bool(StrictEquals(Get(task, K_priority), S_high)
                      \/ StrictEquals(Get(task, K_stakes), S_critical))),
            Prop(K_complexReasoning,
                 Bool(StrictEquals(Get(task, K_analysisType), S_complex)
                      \/ StrictEquals(Get(task, K_reasoning), S_advanced))),
            Prop(K_synthesis,
                 Bool(StrictEquals(Get(task, K_outputType), S_strategic)
                      \/ StrictEquals(Get(task, K_requiresSynthesis), Bool(TRUE)))),
            Prop(K_contextHeavy,
                 Bool(GreaterThan(OrElse(GetOpt(Get(task, K_context), Str(K_length)), Num(0)), 1000))),
            Prop(K_nuancedInterpretation, Bool(StrictEquals(Get(task, K_requiresNuance), Bool(TRUE)))) >>)
          complexity == CountTruthy(indicators.f) IN
      Return(Obj(<<
        Prop(K_tier, classifyTaskComplexity_tier(complexity)),
        Prop(K_score, Num(complexity)),
        Prop(K_indicators, indicators),
        Prop(K_routing, classifyTaskComplexity_routing(complexity)) >>))

\* ------------------------------------------- task queue initialisation
\* const priorityOrder = { 'high': 3, 'medium': 2, 'low': 1 }
priorityOrder == Obj(<<Prop(S_high.s, Num(3)), Prop(S_medium.s, Num(2)), Prop(S_low.s, Num(1))>>)

\* priorityOrder[t.priority] || 1
PriorityRank(t) == OrElse(Get(priorityOrder, ToPropertyKey(Get(t, K_priority))), Num(1))

\* t.chapter || 0, as a number
ChapterOf(t) == ToNumber(OrElse(Get(t, K_chapter), Num(0)))

\* the comparator with the priorities taken the other way round
compareTasks_lowFirst(a, b) ==
  IF IsNullish(a) \/ IsNullish(b) THEN [thrown |-> TRUE, n |-> 0]
  ELSE LET priorityDiff == PriorityRank(a).n - PriorityRank(b).n IN
       IF priorityDiff # 0 THEN [thrown |-> FALSE, n |-> priorityDiff]
       ELSE IF ChapterOf(a).nan \/ ChapterOf(b).nan THEN [thrown |-> FALSE, n |-> 0]
       ELSE [thrown |-> FALSE, n |-> ChapterOf(a).n - ChapterOf(b).n]

\* The comparator of the sort: the priority difference, and for equal
\* priorities the chapter difference (NaN compares as equal).  Reading a
\* property of null or undefined raises.
compareTasks(a, b) ==
  IF IsNullish(a) \/ IsNullish(b) THEN [thrown |-> TRUE, n |-> 0]
  ELSE LET priorityDiff == PriorityRank(b).n - PriorityRank(a).n IN
       IF priorityDiff # 0 THEN [thrown |-> FALSE, n |-> priorityDiff]
       ELSE IF ChapterOf(a).nan \/ ChapterOf(b).nan THEN [thrown |-> FALSE, n |-> 0]
       ELSE [thrown |-> FALSE, n |-> ChapterOf(a).n - ChapterOf(b).n]

\* Array.prototype.sort(compareTasks): a stable sort; undefined elements go
\* last without being compared
RECURSIVE InsertTask(_, _)
InsertTask(x, sorted) ==
  IF sorted = <<>> THEN <<x>>
  ELSE IF compareTasks(x, Head(sorted)).n < 0 THEN <<x>> \o sorted
  ELSE <<Head(sorted)>> \o InsertTask(x, Tail(sorted))

RECURSIVE SortFrom(_, _, _)
SortFrom(es, i, sorted) ==
  IF i > Len(es) THEN sorted ELSE SortFrom(es, i + 1, InsertTask(es[i], sorted))

Defined(es) == SelectSeq(es, LAMBDA x : x # Undefined)
Undefineds(es) == SelectSeq(es, LAMBDA x : x = Undefined)

\* the outcome of array.sort(compareTasks) on the elements es: the sorted
\* elements, or the exception of the comparator
SortTasks(es) ==
  LET ds == Defined(es) IN
  IF Len(ds) >= 2 /\ \E i \in 1..Len(ds) : IsNullish(ds[i]) THEN Throw
  ELSE Return(Arr(SortFrom(ds, 1, <<>>) \o Undefineds(es)))

\* ensureArray reversing the array it was given, in place
ensureArray_shared_reverses(h, r) ==
  LET res == ensureArray(h[r])
      es == h[r].e
      reversed == [i \in 1..Len(es) |-> es[Len(es) + 1 - i]] IN
  IF IsArray(h[r]) THEN [heap |-> [h EXCEPT ![r] = Arr(reversed)], ref |-> r]
  ELSE [heap |-> Append(h, res.val), ref |-> Len(h) + 1]

\* ensureArray on objects held by reference: h is the heap, r the reference
\* of the argument.  An array is returned itself (return value); every other
\* branch builds a new array.
ensureArray_shared(h, r) ==
  LET res == ensureArray(h[r]) IN
  IF IsArray(h[r]) THEN [heap |-> h, ref |-> r]
  ELSE [heap |-> Append(h, res.val), ref |-> Len(h) + 1]

\* writingTasks.sort(...) on the array at reference r: the array itself is
\* reordered; a raising comparator leaves it as it was
sort_shared(h, r) ==
  LET res == SortTasks(h[r].e) IN
  IF res.thrown THEN h ELSE [h EXCEPT ![r] = res.val]

\* ------------------------------------------------------------ the inputs
\* texts: every text over JsonChars up to MaxStrLen, and the sample texts
JsonChars == {"[", "]", ",", "1", "\"", "a", "{", "}", ":"}
SeqsUpTo(S, n) == UNION {[1..k -> S] : k \in 0..n}

T_array123 == <<"[", "1", ",", "2", ",", "3", "]">>
T_objectA1 == <<"{", "\"", "a", "\"", ":", "1", "}">>
T_notJson == <<"n", "o", "t", " ", "j", "s", "o", "n">>
SampleTexts ==
  { T_array123, T_objectA1, T_notJson,
    <<"n", "u", "l", "l">>, <<"t", "r", "u", "e">>, <<"f", "a", "l", "s", "e">>,
    <<" ">>, <<" ", "1", " ">>, <<"0", "1">>, <<"-", "1", "0">>, <<"-">>,
    <<"[", "1", ",", "]">>, <<"[", " ", "]">>, <<"[", "[", "1", "]", "]">>,
    <<"\"", "\\", "\"", "\"">>, <<"\"", "\\", "a", "\"">>,
    <<"{", "\"", "a", "\"", ":", "[", "1", "]", "}">>,
    <<"{", "\"", "a", "\"", ":", "1", ",", "\"", "a", "\"", ":", "2", "}">>,
    <<"{", "a", ":", "1", "}">>, <<"n", "u", "l", "l", "1">> }
Texts == {Str(s) : s \in SeqsUpTo(JsonChars, MaxStrLen) \cup SampleTexts}

K_a == <<"a">>
K_b == <<"b">>
K_c == <<"c">>
ObjA1 == Obj(<<Prop(K_a, Num(1))>>)
ObjAB1 == Obj(<<Prop(K_a, Obj(<<Prop(K_b, Num(1))>>))>>)
Scalars == {Num(0), Num(1), Num(-1), Bool(FALSE), Bool(TRUE)}
Objects == {Obj(<<>>), ObjA1, ObjAB1}

\* arrays: every array of up to MaxArrLen of these elements
Elements ==
  { Null, Undefined, Num(0), Num(1), Bool(FALSE), Str(<<>>), Str(<<"[", "1", "]">>),
    Arr(<<>>), Arr(<<Num(1)>>), ObjA1 }
Arrays == {Arr(es) : es \in SeqsUpTo(Elements, MaxArrLen)}

Values == {Null, Undefined} \cup Scalars \cup Objects \cup Arrays \cup Texts

\* records, paths and defaults of safeGet
PathChars == {"a", "b", "."}
SamplePaths ==
  { <<"a", ".", "b", ".", "c">>, <<"a", ".", "c">>, <<"a", ".", "0">>, <<"0", ".", "a">>,
    <<"a", ".", "b", ".", "0">>, <<"a", ".", "b", ".", "1">>,
    <<"a", ".">> \o K_length, <<"a", ".", "b", ".">> \o K_length }
StringPaths == {Str(s) : s \in SeqsUpTo(PathChars, MaxPathLen) \cup SamplePaths}
ListPaths ==
  { Arr(<<>>), Arr(<<Str(K_a)>>), Arr(<<Str(K_a), Str(K_b)>>), Arr(<<Str(K_a), Str(K_c), Str(K_b)>>),
    Arr(<<Num(0), Str(K_a)>>), Arr(<<Str(<<"a", ".", "b">>)>>), Arr(<<Null>>) }
OtherPaths == {Null, Undefined, Num(0), Bool(TRUE), Obj(<<>>)}
Paths == StringPaths \cup ListPaths \cup OtherPaths

Records ==
  { Null, Undefined, Num(1), Str(<<"a", "b">>), Obj(<<>>), ObjA1, ObjAB1,
    Obj(<<Prop(K_a, Null)>>),
    Obj(<<Prop(K_a, Num(0))>>),
    Obj(<<Prop(K_a, Bool(FALSE))>>),
    Obj(<<Prop(K_a, Str(<<>>))>>),
    Obj(<<Prop(K_a, Obj(<<Prop(K_b, Str(T_array123))>>))>>),
    Obj(<<Prop(K_a, Obj(<<Prop(K_b, Str(T_objectA1))>>))>>),
    Obj(<<Prop(K_a, Obj(<<Prop(K_b, Str(T_notJson))>>))>>),
    Obj(<<Prop(K_a, Obj(<<Prop(K_b, Arr(<<Num(1), Null>>))>>))>>),
    Obj(<<Prop(K_a, Obj(<<Prop(K_b, Null), Prop(K_c, Num(1))>>))>>),
    Obj(<<Prop(K_a, Obj(<<Prop(K_b, Obj(<<Prop(K_c, Bool(TRUE))>>))>>))>>),
    Obj(<<Prop(<<>>, Num(1))>>),
    Obj(<<Prop(<<"a", ".", "b">>, Num(1))>>),
    Arr(<<ObjA1>>) }

PathAB == Str(<<"a", ".", "b">>)
PathAC == Str(<<"a", ".", "c">>)

Defaults == {Undefined, Null, Arr(<<>>), Num(0), Str(<<"d">>)}

\* the propertyValues and item names of safePropertyIteration
PropertyValues ==
  {Null, Undefined, Obj(<<>>), Num(0), Str(<<"a", "b">>)} \cup
  {Obj(<<Prop(K_a, v)>>) :
     v \in {Num(0), Bool(FALSE), Str(<<>>), Null, Num(1), Bool(TRUE), Arr(<<>>), Arr(<<Num(1), Num(2)>>),
            Str(T_array123), Str(T_notJson), ObjA1}}
ItemNames == {Str(K_a), Str(K_b), Num(0)}

\* outcomes of the upstream $input.all()
Upstreams == {Throw} \cup {Return(v) : v \in Values}

\* a text of n characters
TextOfLength(n) == Str([i \in 1..n |-> "x"])

\* Descriptors of classifyTaskComplexity: per indicator, the fields are
\* absent or hold a value that sets the indicator; one indicator at a time
\* also takes the other field values below.
TaskFields(i, wide) ==
  CASE i = 1 -> {<<>>, <<Prop(K_sources, Arr(<<Num(1), Num(2)>>))>>} \cup
         (IF wide THEN {<<Prop(K_sources, v)>> :
                          v \in {Arr(<<>>), Arr(<<Num(1)>>), Str(<<"a", "b">>), Str(<<>>), Num(5), Null}}
          ELSE {})
    [] i = 2 -> {<<>>, <<Prop(K_content, Str(<<"x", " ">> \o S_unclear.s))>>} \cup
         (IF wide THEN {<<Prop(K_content, v)>> :
                          v \in {Str(<<"c", "l", "e", "a", "r">>), Str(<<>>), Num(5), Bool(TRUE),
                                 Obj(<<>>), Arr(<<S_unclear>>), Arr(<<>>), Null}}
                       \cup {<<Prop(K_uncertainties, v)>> :
                          v \in {Arr(<<Num(1)>>), Arr(<<>>), Str(<<"u">>), Num(3), Null}}
          ELSE {})
    [] i = 3 -> {<<>>, <<Prop(K_requiresComparison, Bool(TRUE))>>} \cup
         (IF wide THEN {<<Prop(K_requiresComparison, v)>> :
                          v \in {Bool(FALSE), Str(<<"t", "r", "u", "e">>), Num(1)}}
          ELSE {})
    [] i = 4 -> {<<>>, <<Prop(K_stakes, S_critical)>>} \cup
         (IF wide THEN {<<Prop(K_priority, S_high)>>, <<Prop(K_priority, S_low)>>,
                        <<Prop(K_stakes, S_high)>>, <<Prop(K_priority, Num(1))>>,
                        <<Prop(K_priority, S_high), Prop(K_stakes, S_critical)>>}
          ELSE {})
    [] i = 5 -> {<<>>, <<Prop(K_analysisType, S_complex)>>} \cup
         (IF wide THEN {<<Prop(K_reasoning, S_advanced)>>, <<Prop(K_analysisType, S_standard)>>,
                        <<Prop(K_reasoning, Bool(TRUE))>>}
          ELSE {})
    [] i = 6 -> {<<>>, <<Prop(K_requiresSynthesis, Bool(TRUE))>>} \cup
         (IF wide THEN {<<Prop(K_outputType, S_strategic)>>, <<Prop(K_outputType, S_standard)>>,
                        <<Prop(K_requiresSynthesis, Bool(FALSE))>>,
                        <<Prop(K_requiresSynthesis, Str(<<"t", "r", "u", "e">>))>>}
          ELSE {})
    [] i = 7 -> {<<>>, <<Prop(K_context, TextOfLength(1001))>>} \cup
         (IF wide THEN {<<Prop(K_context, v)>> :
                          v \in {TextOfLength(1000), Str(<<>>), Num(2000), Null,
                                 Obj(<<Prop(K_length, Num(1001))>>)}}
          ELSE {})
    [] i = 8 -> {<<>>, <<Prop(K_requiresNuance, Bool(TRUE))>>} \cup
         (IF wide THEN {<<Prop(K_requiresNuance, v)>> : v \in {Bool(FALSE), Num(1)}}
          ELSE {})

ExampleTask ==
  Obj(<<Prop(K_sources, Arr(<<Num(1), Num(2)>>)), Prop(K_stakes, S_critical),
        Prop(K_requiresSynthesis, Bool(TRUE))>>)

NotRecords == {Null, Undefined, Num(1), Str(<<"x">>), Arr(<<>>)}

Tasks ==
  NotRecords \cup
  UNION { { Obj(f1 \o f2 \o f3 \o f4 \o f5 \o f6 \o f7 \o f8) :
              f1 \in TaskFields(1, w = 1), f2 \in TaskFields(2, w = 2),
              f3 \in TaskFields(3, w = 3), f4 \in TaskFields(4, w = 4),
              f5 \in TaskFields(5, w = 5), f6 \in TaskFields(6, w = 6),
              f7 \in TaskFields(7, w = 7), f8 \in TaskFields(8, w = 8) } : w \in 1..8 }

\* Descriptors of classifyTask, built the same way over its six indicators.
TaskDataFields(i, wide) ==
  CASE i = 1 -> {<<>>, <<Prop(K_sourceCount, Num(2))>>} \cup
         (IF wide THEN {<<Prop(K_sourceCount, v)>> :
                          v \in {Num(1), Num(0), Str(<<"2">>), Str(<<"a">>), Arr(<<Num(5)>>),
                                 Arr(<<Num(1), Num(2)>>), Bool(TRUE), Null}}
          ELSE {})
    [] i = 2 -> {<<>>, <<Prop(K_uncertaintyMarkers, Arr(<<Str(<<"u">>)>>))>>} \cup
         (IF wide THEN {<<Prop(K_uncertaintyMarkers, v)>> :
                          v \in {Arr(<<>>), Str(<<"u">>), Num(3), Null, Obj(<<>>)}}
          ELSE {})
    [] i = 3 -> {<<>>, <<Prop(K_stakes, S_high)>>} \cup
         (IF wide THEN {<<Prop(K_stakes, v)>> : v \in {S_critical, S_low, Num(1), Arr(<<S_high>>)}}
          ELSE {})
    [] i = 4 -> {<<>>, <<Prop(K_analysisType, S_complex)>>} \cup
         (IF wide THEN {<<Prop(K_analysisType, v)>> : v \in {S_standard, Bool(TRUE)}}
          ELSE {})
    [] i = 5 -> {<<>>, <<Prop(K_contextRequirement, S_extensive)>>} \cup
         (IF wide THEN {<<Prop(K_contextRequirement, v)>> : v \in {S_standard, Num(1000)}}
          ELSE {})
    [] i = 6 -> {<<>>, <<Prop(K_outputType, S_strategic)>>} \cup
         (IF wide THEN {<<Prop(K_outputType, v)>> : v \in {S_standard, Null}}
          ELSE {})

TaskDatas ==
  NotRecords \cup
  UNION { { Obj(f1 \o f2 \o f3 \o f4 \o f5 \o f6) :
              f1 \in TaskDataFields(1, w = 1), f2 \in TaskDataFields(2, w = 2),
              f3 \in TaskDataFields(3, w = 3), f4 \in TaskDataFields(4, w = 4),
              f5 \in TaskDataFields(5, w = 5), f6 \in TaskDataFields(6, w = 6) } : w \in 1..6 }

\* ------------------------------------------------------ the state machine
\* A caller makes one call after another; each call is a pure function of
\* its arguments.
VARIABLES
  pc,     \* "ready" before a call, "returned" after it
  op,     \* the function called
  arg,    \* its arguments: value, path, dflt, upstream
  out,    \* what the call did: thrown, val, visited, caught
  \* callers that hold the same objects by reference
  initial, \* the objects the callers started with
  heap,   \* the objects: heap[r] is the value of the object at reference r
  before, \* the heap before the latest step
  handed, \* per caller, the reference ensureArray handed back (0: none)
  at,     \* per caller, "idle", "has" (holds a result) or "done"
  result, \* per caller, the value its call returned, as it was at the return
  step,   \* the latest step: the caller and the function
  \* the quick-fix script and the error-handling template
  script,     \* which of the two runs: "quick-fix" or "template" ("none": neither)
  phase,      \* "off", "start", "loop" or "returned"
  strict,     \* whether the script runs as strict-mode code
  input,      \* what $input.all() does: raises or returns a value
  inputItems, \* the items of safeInputAll()
  index,      \* the loop variable i
  results,    \* the records pushed so far
  returned,   \* the value the script returned
  failedAt,   \* the 1-based positions of the items whose processing raised
  now,        \* the clock, in ticks
  \* the task-queue initialisation snippet
  config,     \* the configured maxConcurrentTasks
  batching    \* the item in work: outlineData, sortedTasks, maxConcurrent, i, taskBatches

callVars == <<pc, op, arg, out>>
sharedVars == <<initial, heap, before, handed, at, result, step>>
scriptVars == <<script, phase, strict, input, inputItems, index, results, returned, failedAt, now>>
queueVars == <<config, batching>>
vars == <<callVars, sharedVars, scriptVars, queueVars>>

Callers == {"A", "B"}
NoShared ==
  /\ initial = <<>>
  /\ heap = <<>>
  /\ before = <<>>
  /\ handed = [c \in Callers |-> 0]
  /\ at = [c \in Callers |-> "idle"]
  /\ result = [c \in Callers |-> Undefined]
  /\ step = [caller |-> "none", fn |-> "none"]

NoScript ==
  /\ script = "none"
  /\ phase = "off"
  /\ strict = FALSE
  /\ input = Return(Undefined)
  /\ inputItems = <<>>
  /\ index = 0
  /\ results = <<>>
  /\ returned = <<>>
  /\ failedAt = {}
  /\ now = 0

NoBatching ==
  [outlineData |-> Undefined, sortedTasks |-> <<>>, maxConcurrent |-> Number(0),
   i |-> Number(0), taskBatches |-> <<>>, beyond |-> 0]
NoQueue ==
  /\ config = Undefined
  /\ batching = NoBatching

NoArg == [value |-> Undefined, path |-> Undefined, dflt |-> Undefined, upstream |-> Return(Undefined),
          itemName |-> Undefined]
NoOut == [thrown |-> FALSE, val |-> Undefined, visited |-> 0, caught |-> FALSE]
\* the outcome of a function that has no catch block and no path
Plain(r) == [thrown |-> r.thrown, val |-> r.val, visited |-> 0, caught |-> FALSE]

Init ==
  /\ pc = "ready"
  /\ op = "none"
  /\ arg = NoArg
  /\ out = NoOut
  /\ NoShared
  /\ NoScript
  /\ NoQueue

Call_ensureArray ==
  /\ pc = "ready"
  /\ \E value \in Values :
       /\ arg' = [NoArg EXCEPT !.value = value]
       /\ out' = Plain(ensureArray(value))
  /\ op' = "ensureArray"
  /\ pc' = "returned"
  /\ UNCHANGED <<sharedVars, scriptVars, queueVars>>

Call_ensureArray_part000 ==
  /\ pc = "ready"
  /\ \E value \in Values :
       /\ arg' = [NoArg EXCEPT !.value = value]
       /\ out' = Plain(ensureArray_part000(value))
  /\ op' = "ensureArray_part000"
  /\ pc' = "returned"
  /\ UNCHANGED <<sharedVars, scriptVars, queueVars>>

Call_ensureArray_part001 ==
  /\ pc = "ready"
  /\ \E value \in Values :
       /\ arg' = [NoArg EXCEPT !.value = value]
       /\ out' = Plain(ensureArray_part001(value))
  /\ op' = "ensureArray_part001"
  /\ pc' = "returned"
  /\ UNCHANGED <<sharedVars, scriptVars, queueVars>>

Call_safeGet_part000 ==
  /\ pc = "ready"
  /\ \E obj \in Records, path \in Paths, defaultValue \in Defaults :
       /\ arg' = [NoArg EXCEPT !.value = obj, !.path = path, !.dflt = defaultValue]
       /\ out' = safeGet_part000(obj, path, defaultValue)
  /\ op' = "safeGet_part000"
  /\ pc' = "returned"
  /\ UNCHANGED <<sharedVars, scriptVars, queueVars>>

Call_safeGet_part001 ==
  /\ pc = "ready"
  /\ \E obj \in Records, path \in Paths, defaultValue \in Defaults :
       /\ arg' = [NoArg EXCEPT !.value = obj, !.path = path, !.dflt = defaultValue]
       /\ out' = safeGet_part001(obj, path, defaultValue)
  /\ op' = "safeGet_part001"
  /\ pc' = "returned"
  /\ UNCHANGED <<sharedVars, scriptVars, queueVars>>

Call_safeInputAll_part000 ==
  /\ pc = "ready"
  /\ \E upstream \in Upstreams :
       /\ arg' = [NoArg EXCEPT !.upstream = upstream]
       /\ out' = Plain(safeInputAll_part000(upstream))
  /\ op' = "safeInputAll_part000"
  /\ pc' = "returned"
  /\ UNCHANGED <<sharedVars, scriptVars, queueVars>>

Call_safeInputAll_part001 ==
  /\ pc = "ready"
  /\ \E upstream \in Upstreams :
       /\ arg' = [NoArg EXCEPT !.upstream = upstream]
       /\ out' = Plain(safeInputAll_part001(upstream))
  /\ op' = "safeInputAll_part001"
  /\ pc' = "returned"
  /\ UNCHANGED <<sharedVars, scriptVars, queueVars>>

Call_classifyTask ==
  /\ pc = "ready"
  /\ \E taskData \in TaskDatas :
       /\ arg' = [NoArg EXCEPT !.value = taskData]
       /\ out' = Plain(classifyTask(taskData))
  /\ op' = "classifyTask"
  /\ pc' = "returned"
  /\ UNCHANGED <<sharedVars, scriptVars, queueVars>>

Call_classifyTaskComplexity ==
  /\ pc = "ready"
  /\ \E task \in Tasks :
       /\ arg' = [NoArg EXCEPT !.value = task]
       /\ out' = Plain(classifyTaskComplexity(task))
  /\ op' = "classifyTaskComplexity"
  /\ pc' = "returned"
  /\ UNCHANGED <<sharedVars, scriptVars, queueVars>>

\* the caller takes the result and is ready for its next call
Call_safePropertyIteration ==
  /\ pc = "ready"
  /\ \E propertyValues \in PropertyValues, itemName \in ItemNames :
       /\ arg' = [NoArg EXCEPT !.value = propertyValues, !.itemName = itemName]
       /\ out' = Plain(safePropertyIteration(propertyValues, itemName))
  /\ op' = "safePropertyIteration"
  /\ pc' = "returned"
  /\ UNCHANGED <<sharedVars, scriptVars, queueVars>>

NextCall ==
  /\ pc = "returned"
  /\ pc' = "ready"
  /\ op' = "none"
  /\ arg' = NoArg
  /\ out' = NoOut
  /\ UNCHANGED <<sharedVars, scriptVars, queueVars>>

Next ==
  \/ Call_ensureArray
  \/ Call_ensureArray_part000
  \/ Call_ensureArray_part001
  \/ Call_safeGet_part000
  \/ Call_safeGet_part001
  \/ Call_safeInputAll_part000
  \/ Call_safeInputAll_part001
  \/ Call_classifyTask
  \/ Call_classifyTaskComplexity
  \/ Call_safePropertyIteration
  \/ NextCall

Spec == Init /\ [][Next]_vars

\* ------------------------------------------- callers sharing their inputs
\* Two callers hold the same array (reference 1) and the same record
\* (reference 2).  Each makes one call; a caller that called ensureArray may
\* go on as the task queue initialisation does and sort what it was handed.
TaskKinds ==
  { Obj(<<Prop(K_priority, S_high), Prop(K_chapter, Num(2))>>),
    Obj(<<Prop(K_priority, S_low), Prop(K_chapter, Num(1))>>),
    Obj(<<Prop(K_priority, S_medium), Prop(K_chapter, Num(1))>>),
    Obj(<<Prop(K_chapter, Num(3))>>) }
TaskLists == {Arr(es) : es \in SeqsUpTo(TaskKinds, MaxTasks)}
SharedValues == TaskLists \cup {Str(T_array123), Null}
SharedRecords == {ObjAB1, ExampleTask}

SharedInit ==
  /\ pc = "ready"
  /\ op = "none"
  /\ arg = NoArg
  /\ out = NoOut
  /\ \E v \in SharedValues, rec \in SharedRecords : initial = <<v, rec>>
  /\ heap = initial
  /\ before = initial
  /\ handed = [c \in Callers |-> 0]
  /\ at = [c \in Callers |-> "idle"]
  /\ result = [c \in Callers |-> Undefined]
  /\ step = [caller |-> "none", fn |-> "none"]
  /\ NoScript
  /\ NoQueue

\* caller c calls ensureArray on the shared value
Shared_ensureArray(c) ==
  /\ at[c] = "idle"
  /\ LET r == ensureArray_shared(heap, 1) IN
       /\ heap' = r.heap
       /\ handed' = [handed EXCEPT ![c] = r.ref]
       /\ result' = [result EXCEPT ![c] = r.heap[r.ref]]
  /\ before' = heap
  /\ at' = [at EXCEPT ![c] = "has"]
  /\ step' = [caller |-> c, fn |-> "ensureArray"]
  /\ UNCHANGED <<callVars, scriptVars, queueVars, initial>>

\* caller c looks a.b up in the shared record
Shared_safeGet(c) ==
  /\ at[c] = "idle"
  /\ result' = [result EXCEPT ![c] = safeGet_part000(heap[2], PathAB, Undefined).val]
  /\ before' = heap
  /\ at' = [at EXCEPT ![c] = "done"]
  /\ step' = [caller |-> c, fn |-> "safeGet"]
  /\ UNCHANGED <<callVars, scriptVars, queueVars, initial, heap, handed>>

\* caller c classifies the shared record
Shared_classifyTask(c) ==
  /\ at[c] = "idle"
  /\ result' = [result EXCEPT ![c] = classifyTask(heap[2]).val]
  /\ before' = heap
  /\ at' = [at EXCEPT ![c] = "done"]
  /\ step' = [caller |-> c, fn |-> "classifyTask"]
  /\ UNCHANGED <<callVars, scriptVars, queueVars, initial, heap, handed>>

Shared_classifyTaskComplexity(c) ==
  /\ at[c] = "idle"
  /\ result' = [result EXCEPT ![c] = classifyTaskComplexity(heap[2]).val]
  /\ before' = heap
  /\ at' = [at EXCEPT ![c] = "done"]
  /\ step' = [caller |-> c, fn |-> "classifyTaskComplexity"]
  /\ UNCHANGED <<callVars, scriptVars, queueVars, initial, heap, handed>>

\* caller c sorts the array it was handed: writingTasks.sort(...)
Shared_sort(c) ==
  /\ at[c] = "has"
  /\ heap' = sort_shared(heap, handed[c])
  /\ before' = heap
  /\ at' = [at EXCEPT ![c] = "done"]
  /\ step' = [caller |-> c, fn |-> "sort"]
  /\ UNCHANGED <<callVars, scriptVars, queueVars, initial, handed, result>>

SharedNext ==
  \E c \in Callers :
    \/ Shared_ensureArray(c)
    \/ Shared_safeGet(c)
    \/ Shared_classifyTask(c)
    \/ Shared_classifyTaskComplexity(c)
    \/ Shared_sort(c)

SharedSpec == SharedInit /\ [][SharedNext]_vars

\* ===================================================== the quick-fix script
\* src/unnamed/part_001 lines 47-160.  The texts the script writes in
\* Chinese are written here in English; no step of the script reads them.
K_json == <<"j", "s", "o", "n">>
K_binary == <<"b", "i", "n", "a", "r", "y">>
K_error == <<"e", "r", "r", "o", "r">>
K_errorMessage == <<"e", "r", "r", "o", "r", "M", "e", "s", "s", "a", "g", "e">>
K_errorStack == <<"e", "r", "r", "o", "r", "S", "t", "a", "c", "k">>
K_originalData == <<"o", "r", "i", "g", "i", "n", "a", "l", "D", "a", "t", "a">>
K_processingStage == <<"p", "r", "o", "c", "e", "s", "s", "i", "n", "g", "S", "t", "a", "g", "e">>
K_processingIndex == <<"p", "r", "o", "c", "e", "s", "s", "i", "n", "g", "I", "n", "d", "e", "x">>
K_processedAt == <<"p", "r", "o", "c", "e", "s", "s", "e", "d", "A", "t">>
K_timestamp == <<"t", "i", "m", "e", "s", "t", "a", "m", "p">>
K_message == <<"m", "e", "s", "s", "a", "g", "e">>
K_stack == <<"s", "t", "a", "c", "k">>
K_debugInfo == <<"d", "e", "b", "u", "g", "I", "n", "f", "o">>
K_inputType == <<"i", "n", "p", "u", "t", "T", "y", "p", "e">>

S_completed == Str(<<"c", "o", "m", "p", "l", "e", "t", "e", "d">>)
S_item_failed == Str(<<"i", "t", "e", "m", "_", "f", "a", "i", "l", "e", "d">>)
S_no_input == Str(<<"n", "o", "_", "i", "n", "p", "u", "t">>)
S_global_failed == Str(<<"g", "l", "o", "b", "a", "l", "_", "f", "a", "i", "l", "e", "d">>)
S_object == Str(<<"o", "b", "j", "e", "c", "t">>)
E_noInput == Str(<<"no input data">>)
E_itemFailed == Str(<<"item processing failed">>)
E_globalFailed == Str(<<"global processing failed">>)

\* new Date().toISOString(): the clock counts ticks, and the text of tick t
\* is its digits followed by Z
toISOString(t) == Str(NatToStr(t) \o <<"Z">>)

\* what a failing statement throws: the engine's TypeError, or the Error of
\* the processing logic put in at lines 82-104
ErrorOf(name) == Obj(<<Prop(K_message, Str(<<name>>)), Prop(K_stack, Str(<<name, "@">>))>>)
TypeError == ErrorOf("TypeError")
LogicError == ErrorOf("Error")

\* { ...v }: the own enumerable properties of v
Spread(v) ==
  CASE v.t = "object" -> v.f
    [] v.t = "array" -> [k \in 1..Len(v.e) |-> Prop(NatToStr(k - 1), v.e[k])]
    [] v.t = "string" -> [k \in 1..Len(v.s) |-> Prop(NatToStr(k - 1), Str(<<v.s[k]>>))]
    [] OTHER -> <<>>

\* the properties ps followed by the properties qs of an object literal
RECURSIVE Assign(_, _)
Assign(ps, qs) ==
  IF qs = <<>> THEN ps
  ELSE Assign(SetProp(ps, Head(qs).k, Head(qs).v), Tail(qs))

\* lines 77-80: if (!item.json) item.json = {}.  The assignment takes effect
\* on an object, is ignored on a primitive in sloppy code and raises a
\* TypeError on a primitive in strict code.
HoldsProperties(item) == item.t \in {"object", "array"}
initRaises(item, isStrict) ==
  ~Truthy(Get(item, K_json)) /\ ~HoldsProperties(item) /\ isStrict
jsonAfterInit(item) ==
  IF Truthy(Get(item, K_json)) THEN Get(item, K_json)
  ELSE IF HoldsProperties(item) THEN Obj(<<>>)
  ELSE Undefined

\* lines 106-116
processedData(item, i, t) ==
  Obj(Assign(Spread(jsonAfterInit(item)),
             <<Prop(K_processedAt, toISOString(t)),
               Prop(K_processingStage, S_completed),
               Prop(K_processingIndex, Num(i + 1))>>))
completedRecord(item, i, t) ==
  Obj(<<Prop(K_json, processedData(item, i, t)),
        Prop(K_binary, OrElse(Get(item, K_binary), Obj(<<>>)))>>)

\* lines 121-137: the catch block of one item; reading itemError.message
\* raises when the thrown value is null or undefined
onItemError_rethrows(rs, item, itemError, i, t) == Throw
onItemError(rs, item, itemError, i, t) ==
  IF IsNullish(itemError) THEN Throw
  ELSE Return(Append(rs,
    Obj(<<Prop(K_json, Obj(<<
            Prop(K_error, E_itemFailed),
            Prop(K_errorMessage, Get(itemError, K_message)),
            Prop(K_errorStack, Get(itemError, K_stack)),
            Prop(K_originalData,
                 OrElse(IF IsNullish(item) THEN Undefined ELSE jsonAfterInit(item),
                        Obj(<<>>))),
            Prop(K_processingStage, S_item_failed),
            Prop(K_processingIndex, Num(i + 1)),
            Prop(K_timestamp, toISOString(t))>>)),
          Prop(K_binary, OrElse(GetOpt(item, Str(K_binary)), Obj(<<>>)))>>)))

\* lines 55-62
noInputRecord(t) ==
  Obj(<<Prop(K_json, Obj(<<Prop(K_error, E_noInput),
                           Prop(K_processingStage, S_no_input),
                           Prop(K_timestamp, toISOString(t))>>))>>)

\* lines 143-160; debugInfo.inputData is the text of n8n's own $input object
globalFailedRecord(globalError, t) ==
  Obj(<<Prop(K_json, Obj(<<
          Prop(K_error, E_globalFailed),
          Prop(K_errorMessage, Get(globalError, K_message)),
          Prop(K_errorStack, Get(globalError, K_stack)),
          Prop(K_processingStage, S_global_failed),
          Prop(K_timestamp, toISOString(t)),
          Prop(K_debugInfo, Obj(<<Prop(K_inputType, S_object)>>))>>))>>)

\* the items the upstream node can hand over
ItemKinds ==
  {Null, Num(5), Obj(<<>>), Obj(<<Prop(K_json, ObjA1)>>),
   Obj(<<Prop(K_json, Obj(<<Prop(K_processingStage, S_no_input)>>))>>)}
ScriptInputs ==
  {Throw, Return(Obj(<<Prop(K_json, ObjA1)>>))}
    \cup {Return(Arr(es)) : es \in SeqsUpTo(ItemKinds, MaxItems)}

\* what the try block of one item can end with: Undefined when it runs to
\* its end, else the value thrown
ItemOutcomes(item, isStrict) ==
  IF initRaises(item, isStrict) THEN {TypeError} ELSE {Undefined, LogicError}

QuickFixInit ==
  /\ pc = "ready"
  /\ op = "none"
  /\ arg = NoArg
  /\ out = NoOut
  /\ NoShared
  /\ NoQueue
  /\ script = "quick-fix"
  /\ phase = "start"
  /\ strict \in BOOLEAN
  /\ input \in ScriptInputs
  /\ inputItems = <<>>
  /\ index = 0
  /\ results = <<>>
  /\ returned = <<>>
  /\ failedAt = {}
  /\ now = 0

\* lines 48-65: read the input; return the no_input record when it is empty
QuickFix_start ==
  /\ script = "quick-fix"
  /\ phase = "start"
  /\ LET items == safeInputAll_part001(input).val.e IN
       /\ inputItems' = items
       /\ IF Len(items) = 0
          THEN /\ phase' = "returned"
               /\ returned' = <<noInputRecord(now)>>
          ELSE /\ phase' = "loop"
               /\ returned' = returned
  /\ index' = 0
  /\ results' = <<>>
  /\ now' = now + 1
  /\ UNCHANGED <<callVars, sharedVars, queueVars, script, strict, input, failedAt>>

\* lines 67-138: one turn of the loop
QuickFix_item ==
  /\ script = "quick-fix"
  /\ phase = "loop"
  /\ index < Len(inputItems)
  /\ LET item == inputItems[index + 1] IN
       IF ~Truthy(item)
       THEN UNCHANGED <<phase, results, returned, failedAt>>
       ELSE \E thrown \in ItemOutcomes(item, strict) :
              IF thrown = Undefined
              THEN /\ results' = Append(results, completedRecord(item, index, now))
                   /\ UNCHANGED <<phase, returned, failedAt>>
              ELSE LET r == onItemError(results, item, thrown, index, now) IN
                     /\ failedAt' = failedAt \cup {index + 1}
                     /\ IF r.thrown
                        THEN /\ phase' = "returned"
                             /\ returned' = <<globalFailedRecord(TypeError, now)>>
                             /\ results' = results
                        ELSE /\ results' = r.val
                             /\ UNCHANGED <<phase, returned>>
  /\ index' = index + 1
  /\ now' = now + 1
  /\ UNCHANGED <<callVars, sharedVars, queueVars, script, strict, input, inputItems>>

\* lines 140-141
QuickFix_return ==
  /\ script = "quick-fix"
  /\ phase = "loop"
  /\ index = Len(inputItems)
  /\ returned' = results
  /\ phase' = "returned"
  /\ UNCHANGED <<callVars, sharedVars, queueVars, script, strict, input, inputItems, index, results, failedAt, now>>

QuickFixNext ==
  \/ QuickFix_start
  \/ QuickFix_item
  \/ QuickFix_return

QuickFixSpec == QuickFixInit /\ [][QuickFixNext]_vars

\* ============================================ the error-handling template
\* src/unnamed/part_000 lines 204-259
E_failed == Str(<<"processing failed">>)

\* line 211
noInputRecord_part000 ==
  Obj(<<Prop(K_json, Obj(<<Prop(K_error, E_noInput), Prop(K_processingStage, S_no_input)>>))>>)

\* lines 226-230, with the fields of item.json written after processingStage
processedData_part000_stageFirst(item, t) ==
  Obj(Assign(<<Prop(K_processedAt, toISOString(t)), Prop(K_processingStage, S_completed)>>,
             Spread(jsonAfterInit(item))))

\* lines 226-230
processedData_part000(item, t) ==
  Obj(Assign(Spread(jsonAfterInit(item)),
             <<Prop(K_processedAt, toISOString(t)), Prop(K_processingStage, S_completed)>>))

\* line 232
completedRecord_part000(item, t) ==
  Obj(<<Prop(K_json, processedData_part000(item, t)), Prop(K_binary, Get(item, K_binary))>>)

\* what the try block of one item (lines 219-232) can end with: reading
\* item.json of a null or undefined item is a TypeError
ItemOutcomes_part000(item, isStrict) ==
  IF IsNullish(item) THEN {TypeError}
  ELSE IF initRaises(item, isStrict) THEN {TypeError}
  ELSE {Undefined, LogicError}

\* lines 234-244: the catch block of one item reads itemError.message and
\* item.json; either raises when the value read from is null or undefined
onItemError_part000(rs, item, itemError) ==
  IF IsNullish(itemError) \/ IsNullish(item) THEN Throw
  ELSE Return(Append(rs,
    Obj(<<Prop(K_json, Obj(<<
            Prop(K_error, E_itemFailed),
            Prop(K_errorMessage, Get(itemError, K_message)),
            Prop(K_originalData, jsonAfterInit(item)),
            Prop(K_processingStage, S_item_failed)>>))>>)))

\* lines 250-258
globalFailedRecord_part000(globalError) ==
  Obj(<<Prop(K_json, Obj(<<
          Prop(K_error, E_failed),
          Prop(K_errorMessage, Get(globalError, K_message)),
          Prop(K_processingStage, S_global_failed)>>))>>)

TemplateInit ==
  /\ pc = "ready"
  /\ op = "none"
  /\ arg = NoArg
  /\ out = NoOut
  /\ NoShared
  /\ NoQueue
  /\ script = "template"
  /\ phase = "start"
  /\ strict \in BOOLEAN
  /\ input \in ScriptInputs
  /\ inputItems = <<>>
  /\ index = 0
  /\ results = <<>>
  /\ returned = <<>>
  /\ failedAt = {}
  /\ now = 0

\* lines 206-215
Template_start ==
  /\ script = "template"
  /\ phase = "start"
  /\ LET items == safeInputAll_part000(input).val.e IN
       /\ inputItems' = items
       /\ IF Len(items) = 0
          THEN /\ phase' = "returned"
               /\ returned' = <<noInputRecord_part000>>
          ELSE /\ phase' = "loop"
               /\ returned' = returned
  /\ index' = 0
  /\ results' = <<>>
  /\ now' = now + 1
  /\ UNCHANGED <<callVars, sharedVars, queueVars, script, strict, input, failedAt>>

\* lines 217-245: one turn of the loop
Template_item ==
  /\ script = "template"
  /\ phase = "loop"
  /\ index < Len(inputItems)
  /\ LET item == inputItems[index + 1] IN
       \E thrown \in ItemOutcomes_part000(item, strict) :
         IF thrown = Undefined
         THEN /\ results' = Append(results, completedRecord_part000(item, now))
              /\ UNCHANGED <<phase, returned, failedAt>>
         ELSE LET r == onItemError_part000(results, item, thrown) IN
                /\ failedAt' = failedAt \cup {index + 1}
                /\ IF r.thrown
                   THEN /\ phase' = "returned"
                        /\ returned' = <<globalFailedRecord_part000(TypeError)>>
                        /\ results' = results
                   ELSE /\ results' = r.val
                        /\ UNCHANGED <<phase, returned>>
  /\ index' = index + 1
  /\ now' = now + 1
  /\ UNCHANGED <<callVars, sharedVars, queueVars, script, strict, input, inputItems>>

\* line 247
Template_return ==
  /\ script = "template"
  /\ phase = "loop"
  /\ index = Len(inputItems)
  /\ returned' = results
  /\ phase' = "returned"
  /\ UNCHANGED <<callVars, sharedVars, queueVars, script, strict, input, inputItems, index, results, failedAt, now>>

TemplateNext ==
  \/ Template_start
  \/ Template_item
  \/ Template_return

TemplateSpec == TemplateInit /\ [][TemplateNext]_vars

\* either script, run on the same inputs
ScriptsInit == QuickFixInit \/ TemplateInit
ScriptsNext ==
  \/ QuickFix_start
  \/ QuickFix_item
  \/ QuickFix_return
  \/ Template_start
  \/ Template_item
  \/ Template_return
ScriptsSpec == ScriptsInit /\ [][ScriptsNext]_vars

\* ====================================== the task-queue initialisation snippet
\* src/unnamed/part_000 lines 146-195
K_outlineData == <<"o", "u", "t", "l", "i", "n", "e", "D", "a", "t", "a">>
K_writingTasks == <<"w", "r", "i", "t", "i", "n", "g", "T", "a", "s", "k", "s">>
K_taskManagement == <<"t", "a", "s", "k", "M", "a", "n", "a", "g", "e", "m", "e", "n", "t">>
K_totalTasks == <<"t", "o", "t", "a", "l", "T", "a", "s", "k", "s">>
K_totalBatches == <<"t", "o", "t", "a", "l", "B", "a", "t", "c", "h", "e", "s">>
K_currentBatch == <<"c", "u", "r", "r", "e", "n", "t", "B", "a", "t", "c", "h">>
K_completedTasks == <<"c", "o", "m", "p", "l", "e", "t", "e", "d", "T", "a", "s", "k", "s">>
K_failedTasks == <<"f", "a", "i", "l", "e", "d", "T", "a", "s", "k", "s">>
K_taskBatches == <<"t", "a", "s", "k", "B", "a", "t", "c", "h", "e", "s">>
K_startedAt == <<"s", "t", "a", "r", "t", "e", "d", "A", "t">>
K_batchId == <<"b", "a", "t", "c", "h", "I", "d">>
K_tasks == <<"t", "a", "s", "k", "s">>
K_status == <<"s", "t", "a", "t", "u", "s">>

S_pending == Str(<<"p", "e", "n", "d", "i", "n", "g">>)
S_task_initialization == Str(<<"t", "a", "s", "k", "_", "i", "n", "i", "t", "i", "a", "l", "i", "z", "a", "t", "i", "o", "n">>)
S_initialization_failed == Str(<<"i", "n", "i", "t", "i", "a", "l", "i", "z", "a", "t", "i", "o", "n", "_", "f", "a", "i", "l", "e", "d">>)
E_initFailed == Str(<<"task initialisation failed">>)

\* a number that is NaN or infinite, as a value
NaNValue == [t |-> "NaN", n |-> 0, b |-> FALSE, s |-> <<>>, e |-> <<>>, f |-> <<>>]
InfinityValue(sign) == [t |-> "Infinity", n |-> sign, b |-> FALSE, s |-> <<>>, e |-> <<>>, f |-> <<>>]

\* parseInt(v): the text of v, leading white space skipped, an optional
\* sign, then the longest run of digits; NaN when there is no digit
parseInt(v) ==
  LET s0 == ToText(v)
      t == SubSeq(s0, SkipWs(s0, 1), Len(s0))
      signed == t # <<>> /\ t[1] \in {"-", "+"}
      ds == IF signed THEN Tail(t) ELSE t
      d == ParseDigits(ds, 1, 0) IN
  IF d.pos = 1 THEN NaN
  ELSE IF signed /\ t[1] = "-" THEN Number(0 - d.val)
  ELSE Number(d.val)

\* line 161: parseInt(maxConcurrentTasks || '3')
maxConcurrentOf(configured) == parseInt(OrElse(configured, Str(<<"3">>)))

\* x + y and x < k on numbers
NumPlus(x, y) == IF x.nan \/ y.nan THEN NaN ELSE Number(x.n + y.n)
NumLess(x, k) == ~x.nan /\ x.n < k

\* Math.floor(i / maxConcurrent) + 1
batchIdOf(i, maxConcurrent) ==
  IF i.nan \/ maxConcurrent.nan THEN NaNValue
  ELSE IF maxConcurrent.n = 0
    THEN (IF i.n = 0 THEN NaNValue ELSE InfinityValue(IF i.n > 0 THEN 1 ELSE -1))
  ELSE IF maxConcurrent.n > 0 THEN Num((i.n \div maxConcurrent.n) + 1)
  ELSE Num(((0 - i.n) \div (0 - maxConcurrent.n)) + 1)

\* Array.prototype.slice(start, end): NaN counts as 0, a negative index
\* counts from the end, both are clamped to the array
SliceIndex(x, len) ==
  IF x.nan THEN 0
  ELSE IF x.n < 0 THEN (IF len + x.n < 0 THEN 0 ELSE len + x.n)
  ELSE IF x.n > len THEN len ELSE x.n
Slice(es, start, end) ==
  LET from == SliceIndex(start, Len(es))
      to == SliceIndex(end, Len(es)) IN
  IF from < to THEN SubSeq(es, from + 1, to) ELSE <<>>

\* lines 165-170 with the slice one element short
nextBatch_oneShort(sortedTasks, i, maxConcurrent) ==
  Obj(<<Prop(K_batchId, batchIdOf(i, maxConcurrent)),
        Prop(K_tasks, Arr(Slice(sortedTasks, i, NumPlus(NumPlus(i, maxConcurrent), Number(-1))))),
        Prop(K_status, S_pending)>>)

\* lines 165-170: the batch pushed in one turn of the batching loop
nextBatch(sortedTasks, i, maxConcurrent) ==
  Obj(<<Prop(K_batchId, batchIdOf(i, maxConcurrent)),
        Prop(K_tasks, Arr(Slice(sortedTasks, i, NumPlus(i, maxConcurrent)))),
        Prop(K_status, S_pending)>>)

\* line 148: item.json?.outlineData || {}
outlineDataOf(item) == OrElse(GetOpt(Get(item, K_json), Str(K_outlineData)), Obj(<<>>))

\* lines 149-158: the sort reorders the array it is given, so an array held
\* by outlineData.writingTasks is sorted inside outlineData too
outlineDataAfterSort(outlineData, sorted) ==
  IF IsArray(Get(outlineData, K_writingTasks)) /\ outlineData.t = "object"
  THEN Obj(SetProp(outlineData.f, K_writingTasks, Arr(sorted)))
  ELSE outlineData

\* lines 173-185
initialisedJson(outlineData, sortedTasks, taskBatches, t) ==
  Obj(<<Prop(K_outlineData, outlineData),
        Prop(K_taskManagement, Obj(<<
          Prop(K_totalTasks, Num(Len(sortedTasks))),
          Prop(K_totalBatches, Num(Len(taskBatches))),
          Prop(K_currentBatch, Num(1)),
          Prop(K_completedTasks, Num(0)),
          Prop(K_failedTasks, Num(0))>>)),
        Prop(K_taskBatches, Arr(taskBatches)),
        Prop(K_processingStage, S_task_initialization),
        Prop(K_startedAt, toISOString(t))>>)

\* lines 187-191
initialisationFailedJson(error) ==
  Obj(<<Prop(K_error, E_initFailed),
        Prop(K_errorMessage, Get(error, K_message)),
        Prop(K_processingStage, S_initialization_failed)>>)

\* item.json = json on the item at position k of the items the loop holds
withJson(items, k, json) ==
  [items EXCEPT ![k] = Obj(SetProp(items[k].f, K_json, json))]

\* ============================================== the PDF extraction snippet
\* src/unnamed/part_000 lines 88-140
K_fileType == <<"f", "i", "l", "e", "T", "y", "p", "e">>
K_originalFileName == <<"o", "r", "i", "g", "i", "n", "a", "l", "F", "i", "l", "e", "N", "a", "m", "e">>
K_title == <<"t", "i", "t", "l", "e">>
K_fullText == <<"f", "u", "l", "l", "T", "e", "x", "t">>
K_paragraphs == <<"p", "a", "r", "a", "g", "r", "a", "p", "h", "s">>
K_pageCount == <<"p", "a", "g", "e", "C", "o", "u", "n", "t">>
K_wordCount == <<"w", "o", "r", "d", "C", "o", "u", "n", "t">>
K_extractedAt == <<"e", "x", "t", "r", "a", "c", "t", "e", "d", "A", "t">>
K_data == <<"d", "a", "t", "a">>
K_originalFile == <<"o", "r", "i", "g", "i", "n", "a", "l", "F", "i", "l", "e">>
K_filename == <<"f", "i", "l", "e", "n", "a", "m", "e">>
K_text == <<"t", "e", "x", "t">>
K_numpages == <<"n", "u", "m", "p", "a", "g", "e", "s">>

S_pdf == Str(<<"p", "d", "f">>)
S_unknown_pdf == Str(<<"u", "n", "k", "n", "o", "w", "n", ".", "p", "d", "f">>)
S_text_extracted == Str(<<"t", "e", "x", "t", "_", "e", "x", "t", "r", "a", "c", "t", "e", "d">>)
S_extraction_failed == Str(<<"e", "x", "t", "r", "a", "c", "t", "i", "o", "n", "_", "f", "a", "i", "l", "e", "d">>)
E_untitled == Str(<<"title not recognised">>)
E_parseFailed == Str(<<"PDF parsing failed">>)
E_noFileData == ErrorOf("no file data found")

IsLineEnd(c) == c \in {"\n", "\r"}

\* s.trim()
RECURSIVE TrimStart(_)
TrimStart(s) == IF s # <<>> /\ IsWs(s[1]) THEN TrimStart(Tail(s)) ELSE s
Trim(s) == TrimEnd(TrimStart(s))

\* /^(.{1,100})/m: up to 100 characters of the first line that has one
RECURSIVE LineFrom(_, _, _)
LineFrom(s, i, acc) ==
  IF i > Len(s) \/ IsLineEnd(s[i]) \/ Len(acc) = 100 THEN acc
  ELSE LineFrom(s, i + 1, Append(acc, s[i]))
RECURSIVE FirstLine(_, _)
FirstLine(s, i) ==
  IF i > Len(s) THEN <<>>
  ELSE IF IsLineEnd(s[i]) THEN FirstLine(s, i + 1)
  ELSE LineFrom(s, i, <<>>)

\* lines 105-106
titleOf(extractedText) ==
  LET m == FirstLine(extractedText, 1) IN
  IF m = <<>> THEN E_untitled ELSE Str(Trim(m))

\* s.split('\n\n')
RECURSIVE SplitBlank(_, _, _, _)
SplitBlank(s, i, cur, acc) ==
  IF i > Len(s) THEN Append(acc, cur)
  ELSE IF i < Len(s) /\ s[i] = "\n" /\ s[i + 1] = "\n" THEN SplitBlank(s, i + 2, <<>>, Append(acc, cur))
  ELSE SplitBlank(s, i + 1, Append(cur, s[i]), acc)

\* p.replace(/\s+/g, ' ')
RECURSIVE CollapseWs(_, _, _)
CollapseWs(s, i, acc) ==
  IF i > Len(s) THEN acc
  ELSE IF IsWs(s[i])
    THEN (IF i > 1 /\ IsWs(s[i - 1]) THEN CollapseWs(s, i + 1, acc)
          ELSE CollapseWs(s, i + 1, Append(acc, " ")))
  ELSE CollapseWs(s, i + 1, Append(acc, s[i]))

\* lines 109-114
paragraphsOf(extractedText) ==
  IF extractedText = <<>> THEN <<>>
  ELSE LET ps == SelectSeq(SplitBlank(extractedText, 1, <<>>, <<>>),
                           LAMBDA q : q # <<>> /\ Len(Trim(q)) > 50) IN
       [k \in 1..Len(ps) |-> Str(Trim(CollapseWs(ps[k], 1, <<>>)))]

\* line 123: extractedText.split(/\s+/).length, one more than the runs of
\* white space
wordCountOf(extractedText) ==
  IF extractedText = <<>> THEN 0
  ELSE 1 + Cardinality({k \in 1..Len(extractedText) :
                          IsWs(extractedText[k]) /\ (k = 1 \/ ~IsWs(extractedText[k - 1]))})

\* lines 116-126
extractedJson(item, pdfData, t) ==
  LET extractedText == OrElse(Get(pdfData, K_text), Str(<<>>))
      pageCount == OrElse(Get(pdfData, K_numpages), Num(0)) IN
  Obj(<<Prop(K_fileType, S_pdf),
        Prop(K_originalFileName, OrElse(GetOpt(Get(item, K_json), Str(K_filename)), S_unknown_pdf)),
        Prop(K_title, titleOf(extractedText.s)),
        Prop(K_fullText, extractedText),
        Prop(K_paragraphs, Arr(paragraphsOf(extractedText.s))),
        Prop(K_pageCount, pageCount),
        Prop(K_wordCount, Num(wordCountOf(extractedText.s))),
        Prop(K_extractedAt, toISOString(t)),
        Prop(K_processingStage, S_text_extracted)>>)

\* lines 132-136
extractionFailedJson(error) ==
  Obj(<<Prop(K_error, E_parseFailed),
        Prop(K_errorMessage, Get(error, K_message)),
        Prop(K_processingStage, S_extraction_failed)>>)

\* line 128: item.binary.originalFile = item.binary.data
withOriginalFile(item) ==
  LET binary == Get(item, K_binary) IN
  Obj(SetProp(item.f, K_binary, Obj(SetProp(binary.f, K_originalFile, Get(binary, K_data)))))

\* ------------------------------------------- the two snippets as programs
\* the writing tasks of an outline
QueueTaskKinds == TaskKinds \cup {Obj(<<Prop(K_priority, Str(<<"x">>))>>)}
ThreeTasks ==
  Arr(<<Obj(<<Prop(K_priority, S_low), Prop(K_chapter, Num(2))>>),
        Obj(<<Prop(K_priority, S_high), Prop(K_chapter, Num(3))>>),
        Obj(<<Prop(K_priority, S_low), Prop(K_chapter, Num(1))>>)>>)
QueueTaskLists == {Arr(es) : es \in SeqsUpTo(QueueTaskKinds, MaxTasks)} \cup {ThreeTasks}
WritingTasksValues ==
  QueueTaskLists \cup
  {Undefined, Null, Str(T_array123), Arr(<<Null, Obj(<<Prop(K_priority, S_high)>>)>>)}
QueueItem(w) ==
  Obj(<<Prop(K_json, Obj(<<Prop(K_outlineData,
          Obj(IF w = Undefined THEN <<>> ELSE <<Prop(K_writingTasks, w)>>))>>))>>)
QueueItems == {QueueItem(w) : w \in WritingTasksValues} \cup {Null, Obj(<<>>)}
SecondItems == {QueueItem(ThreeTasks), Null}
QueueInputs ==
  {Throw} \cup {Return(Arr(<<a>>)) : a \in QueueItems}
    \cup {Return(Arr(<<a, b>>)) : a \in QueueItems, b \in SecondItems}
\* the values maxConcurrentTasks is configured with (absent: Undefined)
MaxConcurrentValues ==
  {Undefined, Str(<<"3">>), Str(<<"1">>), Str(<<"2">>), Str(<<"0">>), Str(<<"-", "1">>), Str(<<"x">>)}

\* the items of the PDF snippet and what pdfParse makes of a file
PdfItems ==
  {Null, Obj(<<>>),
   Obj(<<Prop(K_binary, Obj(<<Prop(K_data, Str(<<"Q", "Q">>))>>))>>),
   Obj(<<Prop(K_json, Obj(<<Prop(K_filename, Str(<<"f">>))>>)),
         Prop(K_binary, Obj(<<Prop(K_data, Str(<<"Q", "Q">>))>>))>>)}
PdfInputs ==
  {Throw} \cup {Return(Arr(<<a>>)) : a \in PdfItems}
    \cup {Return(Arr(<<a, b>>)) : a \in PdfItems, b \in PdfItems}
PdfOutcomes ==
  {Throw, Return(Obj(<<>>)),
   Return(Obj(<<Prop(K_text, Str(<<" ", "a", " ", "b">>)), Prop(K_numpages, Num(2))>>)),
   Return(Obj(<<Prop(K_text, Str(TextOfLength(51).s \o <<"\n", "\n", "a">>)), Prop(K_numpages, Num(1))>>))}

SnippetInit ==
  /\ pc = "ready"
  /\ op = "none"
  /\ arg = NoArg
  /\ out = NoOut
  /\ NoShared
  /\ \/ script = "queue" /\ input \in QueueInputs /\ config \in MaxConcurrentValues
     \/ script = "pdf" /\ input \in PdfInputs /\ config = Undefined
  /\ phase = "start"
  /\ strict = FALSE
  /\ inputItems = <<>>
  /\ index = 0
  /\ results = <<>>
  /\ returned = <<>>
  /\ failedAt = {}
  /\ now = 0
  /\ batching = NoBatching

\* lines 91 and 146: for (const item of safeInputAll())
Snippet_start ==
  /\ script \in {"queue", "pdf"}
  /\ phase = "start"
  /\ inputItems' = safeInputAll_part000(input).val.e
  /\ phase' = "loop"
  /\ UNCHANGED <<callVars, sharedVars, queueVars, script, strict, input, index, results, returned, failedAt, now>>

\* lines 147-162: one item up to the start of its batching loop.  A null or
\* undefined item raises in the try block and again in the catch block,
\* which ends the snippet with that exception.
Queue_sort ==
  /\ script = "queue"
  /\ phase = "loop"
  /\ index < Len(inputItems)
  /\ LET item == inputItems[index + 1] IN
       IF IsNullish(item)
       THEN /\ phase' = "raised"
            /\ UNCHANGED <<inputItems, index, batching>>
       ELSE LET outlineData == outlineDataOf(item)
                writingTasks == ensureArray_part000(Get(outlineData, K_writingTasks)).val
                sorted == SortTasks(writingTasks.e) IN
            IF sorted.thrown
            THEN /\ inputItems' = withJson(inputItems, index + 1, initialisationFailedJson(TypeError))
                 /\ index' = index + 1
                 /\ UNCHANGED <<phase, batching>>
            ELSE /\ batching' = [outlineData |-> outlineDataAfterSort(outlineData, sorted.val.e),
                                 sortedTasks |-> sorted.val.e,
                                 maxConcurrent |-> maxConcurrentOf(config),
                                 i |-> Number(0),
                                 taskBatches |-> <<>>,
                                 beyond |-> 0]
                 /\ phase' = "batching"
                 /\ UNCHANGED <<inputItems, index>>
  /\ UNCHANGED <<callVars, sharedVars, config, script, strict, input, results, returned, failedAt, now>>

\* lines 164-171: one turn of the batching loop.  The first MaxBatches
\* batches are kept; of the batches pushed after them only the parity of
\* their number is kept (beyond), and i is advanced only while that can
\* still end the loop: a zero or negative step leaves i < length as it is.
Queue_batch ==
  /\ script = "queue"
  /\ phase = "batching"
  /\ NumLess(batching.i, Len(batching.sortedTasks))
  /\ batching' =
       IF Len(batching.taskBatches) < MaxBatches
       THEN [batching EXCEPT
              !.taskBatches = Append(@, nextBatch(batching.sortedTasks, batching.i, batching.maxConcurrent)),
              !.i = NumPlus(@, batching.maxConcurrent)]
       ELSE [batching EXCEPT
              !.beyond = 1 - @,
              !.i = IF batching.maxConcurrent.nan \/ batching.maxConcurrent.n > 0
                    THEN NumPlus(@, batching.maxConcurrent) ELSE @]
  /\ UNCHANGED <<callVars, sharedVars, config, scriptVars>>

\* lines 173-185: the batching loop has ended, item.json is written
Queue_finish ==
  /\ script = "queue"
  /\ phase = "batching"
  /\ ~NumLess(batching.i, Len(batching.sortedTasks))
  /\ inputItems' = withJson(inputItems, index + 1,
       initialisedJson(batching.outlineData, batching.sortedTasks, batching.taskBatches, now))
  /\ index' = index + 1
  /\ phase' = "loop"
  /\ batching' = NoBatching
  /\ now' = now + 1
  /\ UNCHANGED <<callVars, sharedVars, config, script, strict, input, results, returned, failedAt>>

\* lines 91-137: one item of the PDF snippet
Pdf_item ==
  /\ script = "pdf"
  /\ phase = "loop"
  /\ index < Len(inputItems)
  /\ LET item == inputItems[index + 1] IN
       IF IsNullish(item)
       THEN /\ phase' = "raised"
            /\ UNCHANGED <<inputItems, index>>
       ELSE /\ index' = index + 1
            /\ phase' = phase
            /\ IF ~Truthy(GetOpt(Get(item, K_binary), Str(K_data)))
               THEN inputItems' = withJson(inputItems, index + 1, extractionFailedJson(E_noFileData))
               ELSE \E parsed \in PdfOutcomes :
                      IF parsed.thrown
                      THEN inputItems' = withJson(inputItems, index + 1, extractionFailedJson(LogicError))
                      ELSE inputItems' = [inputItems EXCEPT ![index + 1] =
                             withOriginalFile(Obj(SetProp(item.f, K_json, extractedJson(item, parsed.val, now))))]
  /\ now' = now + 1
  /\ UNCHANGED <<callVars, sharedVars, queueVars, script, strict, input, results, returned, failedAt>>

\* what the second $input.all() gives: the objects the loop wrote to, the
\* upstream data once more, or an exception
SecondCalls == {Return(Arr(inputItems)), input, Throw}

\* lines 140 and 195: return safeInputAll()
Snippet_return ==
  /\ script \in {"queue", "pdf"}
  /\ phase = "loop"
  /\ index = Len(inputItems)
  /\ \E second \in SecondCalls : returned' = safeInputAll_part000(second).val.e
  /\ phase' = "returned"
  /\ UNCHANGED <<callVars, sharedVars, queueVars, script, strict, input, inputItems, index, results, failedAt, now>>

SnippetNext ==
  \/ Snippet_start
  \/ Queue_sort
  \/ Queue_batch
  \/ Queue_finish
  \/ Pdf_item
  \/ Snippet_return

SnippetSpec == SnippetInit /\ [][SnippetNext]_vars
\* the interpreter keeps running the batching loop: a turn that can be
\* taken is taken, and so is the step after the loop
SnippetFairSpec == SnippetSpec /\ WF_vars(Queue_batch) /\ WF_vars(Queue_finish)

\* ============================================================== claims
EnsureArrayOps == {"ensureArray", "ensureArray_part000", "ensureArray_part001"}
SafeGetOps == {"safeGet_part000", "safeGet_part001"}
SafeInputAllOps == {"safeInputAll_part000", "safeInputAll_part001"}

\* C1: for every input value ensureArray returns an array and never raises.
C1_EnsureArrayTotal ==
  op \in EnsureArrayOps => ~out.thrown /\ IsArray(out.val)

\* a text that is not JSON went through the catch branch and came back wrapped
C1_Witness ==
  /\ op = "ensureArray"
  /\ arg.value = Str(T_notJson)
  /\ ~out.thrown
  /\ out.val = Arr(<<Str(T_notJson)>>)

\* C2: an array is returned unchanged (same elements, order and length),
\* whatever its elements are, so normalising the result again changes nothing.
C2_ArrayUnchanged ==
  (op \in EnsureArrayOps /\ IsArray(arg.value)) =>
    /\ out.val = arg.value
    /\ Len(out.val.e) = Len(arg.value.e)
    /\ \A i \in 1..Len(arg.value.e) : out.val.e[i] = arg.value.e[i]
    /\ ensureArray(out.val) = Return(out.val)
    /\ ensureArray_part000(out.val) = Return(out.val)
    /\ ensureArray_part001(out.val) = Return(out.val)

\* an array holding null and a JSON text comes back as it went in
C2_Witness ==
  /\ op = "ensureArray"
  /\ arg.value = Arr(<<Null, Str(<<"[", "1", "]">>)>>)
  /\ out.val = arg.value

\* C3: a text that encodes a JSON array normalises to the parsed array, a
\* text that encodes another JSON value to the one-element sequence of the
\* parsed value, and a text that is not JSON (the empty text included) to
\* the one-element sequence of the text itself.
C3_TextNormalised ==
  (op \in EnsureArrayOps /\ arg.value.t = "string") =>
    LET parsed == JSONParse(arg.value.s) IN
    /\ out.val = (IF parsed.thrown THEN Arr(<<arg.value>>)
                  ELSE IF IsArray(parsed.val) THEN parsed.val
                  ELSE Arr(<<parsed.val>>))
    /\ (arg.value = Str(T_array123) => out.val = Arr(<<Num(1), Num(2), Num(3)>>))
    /\ (arg.value = Str(T_objectA1) => out.val = Arr(<<ObjA1>>))
    /\ (arg.value = Str(T_notJson) => out.val = Arr(<<Str(T_notJson)>>))
    /\ (arg.value = Str(<<>>) => out.val = Arr(<<Str(<<>>)>>))

\* the empty text came back as the one-element sequence [""]
C3_Witness ==
  /\ op = "ensureArray"
  /\ arg.value = Str(<<>>)
  /\ out.val = Arr(<<Str(<<>>)>>)

\* C4: null and undefined normalise to the empty sequence, never to [null]
\* or [undefined].
C4_AbsentIsEmpty ==
  (op \in EnsureArrayOps /\ arg.value \in {Null, Undefined}) =>
    /\ out.val = Arr(<<>>)
    /\ out.val # Arr(<<arg.value>>)

C4_Witness ==
  /\ op = "ensureArray"
  /\ arg.value = Undefined
  /\ out.val = Arr(<<>>)

\* C5: a number, a boolean or a single object normalises to the sequence
\* of exactly that one value.
C5_OtherWrapped ==
  (op \in EnsureArrayOps /\ arg.value.t \in {"number", "boolean", "object"}) =>
    /\ Len(out.val.e) = 1
    /\ out.val.e[1] = arg.value

C5_Witness ==
  /\ op = "ensureArray"
  /\ arg.value = Num(0)
  /\ out.val = Arr(<<Num(0)>>)

\* The segments safeGet walks: those of a dotted text, and in the quick-fix
\* script those of a segment list.
HasSegments == arg.path.t = "string" \/ (op = "safeGet_part001" /\ IsArray(arg.path))
Segments == IF arg.path.t = "string" THEN Split(arg.path.s) ELSE arg.path.e

\* the value the first i segments lead to
RECURSIVE Reach(_)
Reach(i) == IF i = 0 THEN arg.value ELSE GetOpt(Reach(i - 1), Segments[i])

\* the default in force: the caller's, or the one of the variant
DefaultInForce == DefaultTo(arg.dflt, IF op = "safeGet_part000" THEN Arr(<<>>) ELSE Null)

\* C6: in both variants safeGet returns the default as soon as a segment
\* resolves to null or undefined, and looks up no later segment.
C6_ShortCircuit ==
  (op \in SafeGetOps /\ HasSegments) =>
    \A i \in 1..Len(Segments) :
      (IsNullish(Reach(i)) /\ \A j \in 1..(i - 1) : ~IsNullish(Reach(j))) =>
        /\ ~out.thrown
        /\ out.val = DefaultInForce
        /\ out.visited = i

\* the first of three segments is null: one lookup, and the default comes back
C6_Witness ==
  /\ op = "safeGet_part000"
  /\ arg.value = Obj(<<Prop(K_a, Null)>>)
  /\ arg.path = Str(<<"a", ".", "b", ".", "c">>)
  /\ arg.dflt = Str(<<"d">>)
  /\ out.visited = 1
  /\ out.val = Str(<<"d">>)

\* C7: safeGet never raises; a path it cannot walk (not a text, nor in the
\* quick-fix script a segment list) gives the default.
C7_SafeGetNeverRaises ==
  op \in SafeGetOps =>
    /\ ~out.thrown
    /\ (~HasSegments => out.val = DefaultInForce)
    /\ (out.caught => out.val = DefaultInForce)

\* a null path on a null record: the catch block ran and gave the default
C7_Witness ==
  /\ op = "safeGet_part000"
  /\ arg.value = Null
  /\ arg.path = Null
  /\ arg.dflt = Str(<<"d">>)
  /\ out.caught
  /\ ~out.thrown
  /\ out.val = Str(<<"d">>)

\* C8: when every segment resolves to a present value v, the fix guide's
\* safeGet returns ensureArray(v) and the quick-fix script's returns v;
\* a.b in {a:{b:1}} gives [1] resp. 1, and a.c with default [] gives [].
C8_PresentValue ==
  (op \in SafeGetOps /\ HasSegments) =>
    LET v == Reach(Len(Segments)) IN
    /\ (~IsNullish(v) /\ op = "safeGet_part000") => out.val = ensureArray_part000(v).val
    /\ (~IsNullish(v) /\ op = "safeGet_part001") => out.val = v
    /\ (arg.value = ObjAB1 /\ arg.path = PathAB /\ op = "safeGet_part000") => out.val = Arr(<<Num(1)>>)
    /\ (arg.value = ObjAB1 /\ arg.path = PathAB /\ op = "safeGet_part001") => out.val = Num(1)
    /\ (arg.value = ObjAB1 /\ arg.path = PathAC /\ arg.dflt = Arr(<<>>)) => out.val = Arr(<<>>)
    /\ (arg.value = Obj(<<Prop(K_a, Obj(<<Prop(K_b, Str(T_array123))>>))>>)
          /\ arg.path = PathAB /\ op = "safeGet_part000") => out.val = Arr(<<Num(1), Num(2), Num(3)>>)

\* a.b in {a:{b:1}} with the fix guide's safeGet gave [1]
C8_Witness ==
  /\ op = "safeGet_part000"
  /\ arg.value = ObjAB1
  /\ arg.path = PathAB
  /\ out.val = Arr(<<Num(1)>>)

\* C9: safeInputAll never raises: it gives the empty sequence when the
\* upstream raises, the upstream array unchanged, and a non-array result
\* wrapped in a one-element sequence.
C9_SafeInputAll ==
  op \in SafeInputAllOps =>
    /\ ~out.thrown
    /\ (arg.upstream.thrown => out.val = Arr(<<>>))
    /\ (~arg.upstream.thrown /\ IsArray(arg.upstream.val) => out.val = arg.upstream.val)
    /\ (~arg.upstream.thrown /\ ~IsArray(arg.upstream.val) => out.val = Arr(<<arg.upstream.val>>))

\* the upstream raised and the empty sequence came back
C9_Witness ==
  /\ op = "safeInputAll_part000"
  /\ arg.upstream.thrown
  /\ ~out.thrown
  /\ out.val = Arr(<<>>)

\* the number of indicators that are true in the map a classifier returned
TrueIndicators ==
  LET m == Lookup(out.val.f, IF op = "classifyTask" THEN K_reasoning ELSE K_indicators) IN
  Cardinality({i \in 1..Len(m.f) : m.f[i].v = Bool(TRUE)})

\* C10: in both classifiers the tier is 'premium' exactly when at least 3
\* indicators are true and 'standard' otherwise.
C10_TierThreshold ==
  (op \in {"classifyTask", "classifyTaskComplexity"} /\ ~out.thrown) =>
    /\ Lookup(out.val.f, K_tier) \in {S_premium, S_standard}
    /\ Lookup(out.val.f, K_tier) = S_premium <=> TrueIndicators >= 3
    /\ (TrueIndicators = 2 => Lookup(out.val.f, K_tier) = S_standard)
    /\ (TrueIndicators = 3 => Lookup(out.val.f, K_tier) = S_premium)

\* a descriptor with exactly three true indicators was classified premium
C10_Witness ==
  /\ op = "classifyTask"
  /\ ~out.thrown
  /\ TrueIndicators = 3
  /\ Lookup(out.val.f, K_tier) = S_premium

\* the classification classifyTaskComplexity or classifyTask returned
Indicators == Lookup(out.val.f, IF op = "classifyTask" THEN K_reasoning ELSE K_indicators)
Indicator(k) == Lookup(Indicators.f, k)
Field(k) == Lookup(arg.value.f, k)

\* C11: for every descriptor classifyTaskComplexity returns a tier, a score
\* and the indicator map; every entry of the map is a boolean, the score is
\* the number of true entries and lies between 0 and 8.
C11_Classification ==
  op = "classifyTaskComplexity" =>
    /\ ~out.thrown
    /\ Lookup(out.val.f, K_tier) \in {S_premium, S_standard}
    /\ Lookup(out.val.f, K_score).t = "number"
    /\ Indicators.t = "object"
    /\ Len(Indicators.f) = 8
    /\ \A i \in 1..Len(Indicators.f) : Indicators.f[i].v.t = "boolean"
    /\ Lookup(out.val.f, K_score).n = TrueIndicators
    /\ Lookup(out.val.f, K_score).n \in 0..8

\* the same, for the descriptors on which the classifier returns
C11_WhenReturned ==
  (op = "classifyTaskComplexity" /\ ~out.thrown) =>
    /\ Lookup(out.val.f, K_tier) \in {S_premium, S_standard}
    /\ Indicators.t = "object"
    /\ Len(Indicators.f) = 8
    /\ \A i \in 1..Len(Indicators.f) : Indicators.f[i].v.t = "boolean"
    /\ Lookup(out.val.f, K_score) = Num(TrueIndicators)
    /\ TrueIndicators \in 0..8

\* the fields each indicator reads
IndicatorFields ==
  IF op = "classifyTask"
    THEN { <<K_crossReferenceRequired, {K_sourceCount}>>,
           <<K_ambiguityPresent, {K_uncertaintyMarkers}>>,
           <<K_qualityCritical, {K_stakes}>>,
           <<K_reasoningDepth, {K_analysisType}>>,
           <<K_contextDependency, {K_contextRequirement}>>,
           <<K_synthesisRequired, {K_outputType}>> }
    ELSE { <<K_multiDocument, {K_sources}>>,
           <<K_ambiguityPresent, {K_content, K_uncertainties}>>,
           <<K_crossReference, {K_requiresComparison}>>,
           <<K_qualityCritical, {K_priority, K_stakes}>>,
           <<K_complexReasoning, {K_analysisType, K_reasoning}>>,
           <<K_synthesis, {K_outputType, K_requiresSynthesis}>>,
           <<K_contextHeavy, {K_context}>>,
           <<K_nuancedInterpretation, {K_requiresNuance}>> }

\* C12: in a partially populated descriptor an indicator whose fields are
\* all absent is false; the empty descriptor has score 0 and tier 'standard'.
C12_AbsentIsFalse ==
  (op \in {"classifyTask", "classifyTaskComplexity"} /\ arg.value.t = "object" /\ ~out.thrown) =>
    /\ \A p \in IndicatorFields :
         (\A k \in p[2] : Field(k) = Undefined) => Indicator(p[1]) = Bool(FALSE)
    /\ arg.value = Obj(<<>>) =>
         /\ TrueIndicators = 0
         /\ Lookup(out.val.f, K_tier) = S_standard
         /\ (op = "classifyTaskComplexity" => Lookup(out.val.f, K_score) = Num(0))

\* the empty descriptor was classified: score 0, tier 'standard'
C12_Witness ==
  /\ op = "classifyTaskComplexity"
  /\ arg.value = Obj(<<>>)
  /\ ~out.thrown
  /\ Lookup(out.val.f, K_score) = Num(0)
  /\ Lookup(out.val.f, K_tier) = S_standard

\* C13: the classifiers never raise, whatever the descriptor is.
C13_NeverRaises ==
  op \in {"classifyTask", "classifyTaskComplexity"} => ~out.thrown

\* C14: a sources field that is a text leaves multiDocument false.
C14_TextSourcesIsFalse ==
  (op = "classifyTaskComplexity" /\ arg.value.t = "object" /\ Field(K_sources).t = "string") =>
    /\ ~out.thrown
    /\ Indicator(K_multiDocument) = Bool(FALSE)

\* a descriptor of classifyTaskComplexity whose fields have the documented types
IsTextOrAbsent(v) == v.t \in {"string", "undefined"}
IsBoolOrAbsent(v) == v.t \in {"boolean", "undefined"}
IsListOrAbsent(v) == v.t \in {"array", "undefined"}
WellTyped ==
  /\ arg.value.t = "object"
  /\ IsListOrAbsent(Field(K_sources))
  /\ IsTextOrAbsent(Field(K_content))
  /\ IsListOrAbsent(Field(K_uncertainties))
  /\ IsBoolOrAbsent(Field(K_requiresComparison))
  /\ IsTextOrAbsent(Field(K_priority))
  /\ IsTextOrAbsent(Field(K_stakes))
  /\ IsTextOrAbsent(Field(K_analysisType))
  /\ IsTextOrAbsent(Field(K_reasoning))
  /\ IsTextOrAbsent(Field(K_outputType))
  /\ IsBoolOrAbsent(Field(K_requiresSynthesis))
  /\ IsTextOrAbsent(Field(K_context))
  /\ IsBoolOrAbsent(Field(K_requiresNuance))

\* w occurs in the text s
Occurs(w, s) ==
  \E i \in 1..Len(s) : \E j \in i..Len(s) : SubSeq(s, i, j) = w

\* C16: on a well-typed descriptor each of the eight indicators equals its
\* defining predicate, and {sources:[1,2], stakes:'critical',
\* requiresSynthesis:true} has exactly multiDocument, qualityCritical and
\* synthesis true, score 3, tier 'premium'.
C16_IndicatorPredicates ==
  (op = "classifyTaskComplexity" /\ WellTyped) =>
    /\ ~out.thrown
    /\ Indicator(K_multiDocument) = Bool(Len(Field(K_sources).e) > 1)
    /\ Indicator(K_ambiguityPresent) =
         Bool(Occurs(S_unclear.s, Field(K_content).s) \/ Len(Field(K_uncertainties).e) > 0)
    /\ Indicator(K_crossReference) = Bool(Field(K_requiresComparison) = Bool(TRUE))
    /\ Indicator(K_qualityCritical) = Bool(Field(K_priority) = S_high \/ Field(K_stakes) = S_critical)
    /\ Indicator(K_complexReasoning) =
         Bool(Field(K_analysisType) = S_complex \/ Field(K_reasoning) = S_advanced)
    /\ Indicator(K_synthesis) =
         Bool(Field(K_outputType) = S_strategic \/ Field(K_requiresSynthesis) = Bool(TRUE))
    /\ Indicator(K_contextHeavy) = Bool(Len(Field(K_context).s) > 1000)
    /\ Indicator(K_nuancedInterpretation) = Bool(Field(K_requiresNuance) = Bool(TRUE))
    /\ arg.value = ExampleTask =>
         /\ {i \in 1..8 : Indicators.f[i].v = Bool(TRUE)} = {1, 4, 6}
         /\ Lookup(out.val.f, K_score) = Num(3)
         /\ Lookup(out.val.f, K_tier) = S_premium

\* the example descriptor was classified premium with score 3
C16_Witness ==
  /\ op = "classifyTaskComplexity"
  /\ arg.value = ExampleTask
  /\ Lookup(out.val.f, K_score) = Num(3)
  /\ Lookup(out.val.f, K_tier) = S_premium

\* C19: the three copies of ensureArray return the same result for every
\* value, and so do the two copies of safeInputAll for every upstream.
C19_CopiesAgree ==
  /\ op \in EnsureArrayOps =>
       /\ Plain(ensureArray(arg.value)) = out
       /\ Plain(ensureArray_part000(arg.value)) = out
       /\ Plain(ensureArray_part001(arg.value)) = out
  /\ op \in SafeInputAllOps =>
       /\ Plain(safeInputAll_part000(arg.upstream)) = out
       /\ Plain(safeInputAll_part001(arg.upstream)) = out

\* the debug helper's copy parsed '{"a":1}' to [{a:1}], as the other copies do
C19_Witness ==
  /\ op = "ensureArray"
  /\ arg.value = Str(T_objectA1)
  /\ out.val = Arr(<<ObjA1>>)
  /\ ensureArray_part001(arg.value).val = out.val

\* C17: a call of ensureArray, safeGet, classifyTask or
\* classifyTaskComplexity leaves its argument (and every other object) with
\* the fields, elements and element order it had before the call.
PureCalls == {"ensureArray", "safeGet", "classifyTask", "classifyTaskComplexity"}
C17_CallsLeaveArgument ==
  step.fn \in PureCalls =>
    /\ Len(heap) >= Len(before)
    /\ \A r \in 1..Len(before) : heap[r] = before[r]

\* ensureArray handed an unsorted two-element array back, untouched
C17_Witness ==
  /\ step.fn = "ensureArray"
  /\ handed[step.caller] = 1
  /\ IsArray(heap[1])
  /\ Len(heap[1].e) = 2
  /\ SortTasks(heap[1].e).val # heap[1]
  /\ heap[1] = before[1]

\* C18: however the calls of the callers interleave, every call returns
\* what it would return run alone, and no call nor the array it hands back
\* lets one caller change a value another caller observes.
C18_NoInterference ==
  /\ \A c \in Callers : handed[c] # 0 => result[c] = ensureArray(initial[1]).val
  /\ \A r \in 1..Len(initial) : heap[r] = initial[r]

\* C20: in the quick-fix script a failing item does not interrupt the run:
\* an item_failed record with the item's 1-based processingIndex is
\* appended, every later item is still processed, the records already
\* produced are kept, and the script returns the accumulated results, not
\* the single global_failed record.
StageOf(rec) == Get(Get(rec, K_json), K_processingStage)
IndexOfRecord(rec) == Get(Get(rec, K_json), K_processingIndex)
\* the positions up to n of the items the loop does not skip, ascending
RECURSIVE Processed(_, _)
Processed(items, n) ==
  IF n = 0 THEN <<>>
  ELSE IF Truthy(items[n]) THEN Append(Processed(items, n - 1), n)
  ELSE Processed(items, n - 1)
C20_ItemFailureIsolated ==
  (phase \in {"loop", "returned"} /\ Len(inputItems) > 0) =>
    LET done == Processed(inputItems, index) IN
      /\ failedAt \subseteq {done[j] : j \in 1..Len(done)}
      /\ Len(results) = Len(done)
      /\ \A j \in 1..Len(results) :
           /\ IndexOfRecord(results[j]) = Num(done[j])
           /\ StageOf(results[j]) =
                IF done[j] \in failedAt THEN S_item_failed ELSE S_completed
      /\ phase = "returned" => (index = Len(inputItems) /\ returned = results)

\* the second of three items failed; the first and the third are completed
C20_Witness ==
  /\ phase = "returned"
  /\ failedAt = {2}
  /\ Len(returned) = 3
  /\ StageOf(returned[1]) = S_completed
  /\ StageOf(returned[2]) = S_item_failed
  /\ IndexOfRecord(returned[2]) = Num(2)
  /\ StageOf(returned[3]) = S_completed

\* C27: for every record and every dotted text path, normalising what the
\* quick-fix script's safeGet returns with default [] gives what the fix
\* guide's safeGet returns with default [].
C27_NormalisedLookup ==
  (op \in SafeGetOps /\ arg.path.t = "string" /\ arg.dflt = Arr(<<>>)) =>
    LET raw == safeGet_part001(arg.value, arg.path, arg.dflt)
        normalised == safeGet_part000(arg.value, arg.path, arg.dflt) IN
    /\ ~raw.thrown /\ ~normalised.thrown
    /\ ensureArray_part001(raw.val).val = normalised.val
    /\ op = "safeGet_part000" => out.val = ensureArray_part001(raw.val).val
    /\ op = "safeGet_part001" => ensureArray_part001(out.val).val = normalised.val

\* a.b holding the text [1,2,3]: the fix guide's lookup gave the parsed list
C27_Witness ==
  /\ op = "safeGet_part000"
  /\ arg.value = Obj(<<Prop(K_a, Obj(<<Prop(K_b, Str(T_array123))>>))>>)
  /\ arg.path = PathAB
  /\ arg.dflt = Arr(<<>>)
  /\ out.val = Arr(<<Num(1), Num(2), Num(3)>>)
  /\ safeGet_part001(arg.value, arg.path, arg.dflt).val = Str(T_array123)

\* C29: with a default that is neither null nor undefined, safeGet never
\* returns null or undefined: the result is a present value reached by the
\* path or the default, for every record and every path (the empty text
\* and, in the quick-fix script, the empty segment list included).
C29_NeverNullish ==
  (op \in SafeGetOps /\ ~IsNullish(arg.dflt)) =>
    /\ ~out.thrown
    /\ ~IsNullish(out.val)
    /\ \/ out.val = arg.dflt
       \/ /\ HasSegments
          /\ ~IsNullish(Reach(Len(Segments)))
          /\ out.val \in {Reach(Len(Segments)), ensureArray_part000(Reach(Len(Segments))).val}

\* C30: in classifyTask the confidence is 'high' exactly from 5 true
\* indicators on, 'medium' for 2 to 4 and 'low' for 0 or 1; every 'high'
\* classification is 'premium', every 'low' one is 'standard', and setting
\* one more indicator to true lowers neither the tier nor the confidence.
TierRank(c) == IF Lookup(c.f, K_tier) = S_premium THEN 1 ELSE 0
ConfidenceRank(c) ==
  LET l == Lookup(c.f, K_confidence) IN
  IF l = S_high THEN 2 ELSE IF l = S_medium THEN 1 ELSE 0
\* the values that make each indicator of classifyTask true
TrueSettings ==
  << Prop(K_sourceCount, Num(2)), Prop(K_uncertaintyMarkers, Arr(<<Str(<<"u">>)>>)),
     Prop(K_stakes, S_high), Prop(K_analysisType, S_complex),
     Prop(K_contextRequirement, S_extensive), Prop(K_outputType, S_strategic) >>
C30_ConfidenceConsistent ==
  (op = "classifyTask" /\ ~out.thrown) =>
    LET confidence == Lookup(out.val.f, K_confidence)
        tier == Lookup(out.val.f, K_tier) IN
    /\ confidence = S_high <=> TrueIndicators >= 5
    /\ confidence = S_medium <=> TrueIndicators \in 2..4
    /\ confidence = S_low <=> TrueIndicators \in 0..1
    /\ confidence = S_high => tier = S_premium
    /\ confidence = S_low => tier = S_standard
    /\ arg.value.t = "object" =>
         \A k \in 1..Len(TrueSettings) :
           LET more == classifyTask(Obj(SetProp(arg.value.f, TrueSettings[k].k, TrueSettings[k].v))) IN
           /\ ~more.thrown
           /\ TierRank(more.val) >= TierRank(out.val)
           /\ ConfidenceRank(more.val) >= ConfidenceRank(out.val)

\* four true indicators: medium confidence, premium tier; a fifth makes it high
C30_Witness ==
  /\ op = "classifyTask"
  /\ ~out.thrown
  /\ TrueIndicators = 4
  /\ Lookup(out.val.f, K_confidence) = S_medium
  /\ Lookup(out.val.f, K_tier) = S_premium
  /\ Field(K_outputType) = Undefined
  /\ ConfidenceRank(classifyTask(Obj(SetProp(arg.value.f, K_outputType, S_strategic))).val) = 2

\* C28: safePropertyIteration(propertyValues, itemName) returns an array,
\* never raises, and gives the same sequence as
\* ensureArray(propertyValues[itemName]), also when the property is 0, false
\* or the empty text and when propertyValues is null or undefined.
C28_Interchangeable ==
  op = "safePropertyIteration" =>
    LET other == ensureArrayOfProperty(arg.value, arg.itemName) IN
    /\ ~out.thrown
    /\ IsArray(out.val)
    /\ ~other.thrown
    /\ other.val = out.val

\* what does hold: safePropertyIteration returns an array and never raises,
\* and the two forms agree whenever the property is truthy
C28_WhenTruthy ==
  op = "safePropertyIteration" =>
    /\ ~out.thrown
    /\ IsArray(out.val)
    /\ (~IsNullish(arg.value) /\ Truthy(Get(arg.value, ToPropertyKey(arg.itemName)))) =>
         ensureArrayOfProperty(arg.value, arg.itemName) = Return(out.val)

\* C21: when safeInputAll yields no item, the template and the quick-fix
\* script return exactly one record, of processingStage 'no_input', and
\* process no item; when it yields at least one item the 'no_input' record
\* is never returned.
C21_NoInput ==
  phase = "returned" =>
    /\ Len(inputItems) = 0 =>
         /\ Len(returned) = 1
         /\ StageOf(returned[1]) = S_no_input
         /\ index = 0 /\ results = <<>> /\ failedAt = {}
    /\ Len(inputItems) > 0 =>
         \A j \in 1..Len(returned) : StageOf(returned[j]) # S_no_input

\* the upstream raised and the template returned the one no_input record
C21_Witness ==
  /\ script = "template"
  /\ phase = "returned"
  /\ input.thrown
  /\ returned = <<noInputRecord_part000>>
  /\ index = 0

\* C22: for every non-empty list of items, null/undefined items and items
\* without json included, the template returns one record per item, in
\* input order, each 'completed' or 'item_failed'; a failing item never
\* discards the records of the items before it.
C22_OneRecordPerItem ==
  (script = "template" /\ phase \in {"loop", "returned"} /\ Len(inputItems) > 0) =>
    /\ Len(results) = index
    /\ \A j \in 1..Len(results) :
         StageOf(results[j]) = IF j \in failedAt THEN S_item_failed ELSE S_completed
    /\ phase = "returned" =>
         /\ index = Len(inputItems)
         /\ returned = results

\* what does hold: the same, as long as no item is null or undefined
C22_WithoutAbsentItems ==
  (script = "template" /\ phase \in {"loop", "returned"} /\ Len(inputItems) > 0
     /\ \A k \in 1..Len(inputItems) : ~IsNullish(inputItems[k])) =>
    /\ Len(results) = index
    /\ \A j \in 1..Len(results) :
         StageOf(results[j]) = IF j \in failedAt THEN S_item_failed ELSE S_completed
    /\ phase = "returned" =>
         /\ index = Len(inputItems)
         /\ returned = results

\* the tasks of item k as the upstream gave them, normalised and sorted
GivenTasks(k) ==
  ensureArray_part000(Get(outlineDataOf(safeInputAll_part000(input).val.e[k]), K_writingTasks)).val.e
\* the number of elements of es equal to x
Count(x, es) == Cardinality({k \in 1..Len(es) : es[k] = x})
RECURSIVE Concat(_)
Concat(ss) == IF ss = <<>> THEN <<>> ELSE Head(ss) \o Concat(Tail(ss))

\* C23: for every task list and every positive maxConcurrentTasks the
\* batches partition the sorted task list in order, every batch holds
\* between 1 and maxConcurrent tasks, batchIds are 1, 2, ..., totalBatches,
\* every batch is 'pending', totalTasks is the number of tasks and
\* totalBatches is ceil(totalTasks / maxConcurrent).
PositiveConfig == config \in {Undefined, Str(<<"1">>), Str(<<"2">>), Str(<<"3">>)}
ConfiguredLimit == IF config = Undefined THEN 3 ELSE StringToNumber(config.s).n
C23_BatchesPartition ==
  (script = "queue" /\ PositiveConfig) =>
    \A k \in 1..index :
      StageOf(inputItems[k]) = S_task_initialization =>
        LET json == Get(inputItems[k], K_json)
            batches == Get(json, K_taskBatches).e
            management == Get(json, K_taskManagement)
            sorted == SortTasks(GivenTasks(k)).val.e
            total == Len(sorted) IN
        /\ Concat([b \in 1..Len(batches) |-> Get(batches[b], K_tasks).e]) = sorted
        /\ \A b \in 1..Len(batches) :
             /\ Len(Get(batches[b], K_tasks).e) \in 1..ConfiguredLimit
             /\ Get(batches[b], K_batchId) = Num(b)
             /\ Get(batches[b], K_status) = S_pending
        /\ Get(management, K_totalTasks) = Num(total)
        /\ Get(management, K_totalBatches) = Num(Len(batches))
        /\ Len(batches) = (total + ConfiguredLimit - 1) \div ConfiguredLimit

\* three tasks with maxConcurrentTasks '2': a batch of two and a batch of one
C23_Witness ==
  /\ script = "queue"
  /\ config = Str(<<"2">>)
  /\ index >= 1
  /\ StageOf(inputItems[1]) = S_task_initialization
  /\ Get(Get(Get(inputItems[1], K_json), K_taskManagement), K_totalTasks) = Num(3)
  /\ Len(Get(Get(inputItems[1], K_json), K_taskBatches).e) = 2
  /\ Len(Get(Get(Get(inputItems[1], K_json), K_taskBatches).e[2], K_tasks).e) = 1

\* C24: after the sort, of two consecutive tasks the earlier has a priority
\* rank not below the later (high 3, medium 2, low 1, missing or unknown 1);
\* among equal ranks the chapter (missing counts as 0) does not decrease;
\* the sorted list is a permutation of the tasks given.
RankOf(task) ==
  LET p == Get(task, K_priority) IN
  IF p = S_high THEN 3 ELSE IF p = S_medium THEN 2 ELSE 1
ChapterNumber(task) ==
  LET c == Get(task, K_chapter) IN IF c.t = "number" THEN c.n ELSE 0
C25_BatchingTerminates == (phase = "batching") ~> (phase # "batching")

\* what does hold: the loop ends when maxConcurrent is positive or NaN
C25_WhenPositiveOrNaN ==
  (phase = "batching" /\ (batching.maxConcurrent.nan \/ batching.maxConcurrent.n > 0))
    ~> (phase # "batching")

\* C26: the snippets return exactly the items their loop processed: every
\* item returned by the final safeInputAll() carries the json the loop
\* wrote, whatever the upstream accessor does on its second call.
SnippetStages ==
  IF script = "queue" THEN {S_task_initialization, S_initialization_failed}
  ELSE {S_text_extracted, S_extraction_failed}
C26_ReturnsProcessed ==
  (script \in {"queue", "pdf"} /\ phase = "returned") =>
    /\ returned = inputItems
    /\ \A k \in 1..Len(returned) : StageOf(returned[k]) \in SnippetStages

====
